---- MODULE Spec2Model ----
(***************************************************************************)
(* Tree-walking backup archiver of BrainBridge:                            *)
(*   files_manager/manager.py   return_full_free   (the tree walker)       *)
(*   mini_tools/files_convg.py  aggregate_to_backup / unpack_from_backup   *)
(*                              b64_encode_stream  (the archive codec)     *)
(*                                                                         *)
(* Text is modelled as a sequence of characters, a character being a       *)
(* one-character string; the non-ASCII characters of the markers are the   *)
(* tokens "U00BB", "U00AB", "U2550", ... (their code points).  Bytes are   *)
(* integers 0..255.  SHA-256 is modelled as a collision-free digest: the   *)
(* hexadecimal text of the hashed bytes themselves.                        *)
(***************************************************************************)
EXTENDS Integers, Sequences, FiniteSets, TLC

VARIABLES
    \* ---- b64_encode_stream run on its own
    b64_src, b64_pos, b64_buf, b64_out, b64_wrap, b64_pc,
    \* ---- the file system that is walked and backed up
    fs,
    \* ---- return_full_free
    base_paths,              \* the argument list
    root_idx,                \* 1-based position of "for base_path_str in base_paths"
    result_tree,             \* sequence of [root, list] in key insertion order
    directories_to_explore,
    visited_real_paths,
    walk_pc,                 \* "next_root" | "exploring" | "done" | "raised"
    listings,                \* number of listdir calls made so far
    loops_met,               \* the paths found already visited: <<root_idx, path>>
    earlier_trees,           \* what the earlier calls with these roots returned
    \* ---- aggregate_to_backup
    enc,                     \* its locals, and pc: where it is
    archive,                 \* the lines written to output_backup_path
    fs_changes,              \* how often the file system changed under the encoder
    \* ---- unpack_from_backup
    dec,                     \* its locals, the files it wrote, and pc
    \* ---- simple_import and set_source_dir
    sys_path,                \* sys.path, the list both modules alias
    INITIAL_SYS_PATH,        \* simple_import._INITIAL_SYS_PATH: None or <<list>>
    RAW_SYS_PATH,            \* set_source_dir._RAW_SYS_PATH: None or <<list>>
    imp,                     \* the calls made so far, and what the last one did
    \* ---- thread_requests: RequestPool.execute_all and its workers
    pool                     \* the main thread's position, the workers, the list returned

b64Vars == <<b64_src, b64_pos, b64_buf, b64_out, b64_wrap, b64_pc>>

walkVars == <<base_paths, root_idx, result_tree, directories_to_explore,
              visited_real_paths, walk_pc, listings, loops_met,
              earlier_trees>>

encVars == <<enc, archive, fs_changes>>

impVars == <<sys_path, INITIAL_SYS_PATH, RAW_SYS_PATH, imp>>

vars == <<b64Vars, fs, walkVars, encVars, dec, impVars, pool>>

(***************************************************************************)
(* Bounds of the model                                                     *)
(***************************************************************************)
\* longest byte sequence whose every chunking is explored
MaxBytes == 4

\* byte values the short inputs are built from
ByteChoices == {0, 104, 255}

\* lengths of the long inputs (around one and two wrapped lines of 57 bytes)
LongLengths == {57, 58, 59, 115}

\* chunk sizes tried on the long inputs
LongChunks == {56, 57, 58}

\* bytes one read of the source file returns at most (CHUNK_SIZE of the
\* code, 1 MiB, scaled down to the size of the modelled files)
CHUNK_SIZE == 4

\* how many times the file system may change while the encoder runs
MaxFsChanges == 1

(***************************************************************************)
(* Program constants                                                       *)
(***************************************************************************)
B64_WRAP == 76

VERSION == 2

OPEN_FOLDER_DELIMITER ==
    <<"U2552", "U2550", "U2550", "U2550", "U2550", "[", "B", "A", "C", "K",
    "U", "P", "_", "S", "T", "A", "R", "T", "]", "U2550", "U2550", "U2550",
    "U2555">>
CLOSE_FOLDER_DELIMITER ==
    <<"U2558", "U2550", "U2550", "U2550", "U2550", "[", "B", "A", "C", "K",
    "U", "P", "_", "E", "N", "D", "]", "U2550", "U2550", "U2550", "U255B">>
RECORD_BEGIN ==
    <<"U00BB", "[", "R", "E", "C", "O", "R", "D", "_", "B", "E", "G", "I",
    "N", "]", "U00AB">>
RECORD_END ==
    <<"U00BB", "[", "R", "E", "C", "O", "R", "D", "_", "E", "N", "D", "]",
    "U00AB">>
HEADER_PREFIX ==
    <<"U00BB", "[", "H", "E", "A", "D", "E", "R", "]", "U00AB">>
PAYLOAD_PREFIX ==
    <<"U00BB", "[", "P", "A", "Y", "L", "O", "A", "D", "]", "U00AB">>
META_PREFIX ==
    <<"U00BB", "[", "M", "E", "T", "A", "]", "U00AB">>

(***************************************************************************)
(* Text helpers (Python str operations)                                    *)
(***************************************************************************)
Min(a, b) == IF a < b THEN a ELSE b

\* the characters str.strip() and str.split() treat as whitespace
Whitespace == {" ", "\t"}

\* characters outside ASCII
NonAscii == {"U00BB", "U00AB", "U2552", "U2550", "U2555", "U2558", "U255B",
             "UFFFD"}

\* s.startswith(p)
StartsWith(s, p) == Len(s) >= Len(p) /\ SubSeq(s, 1, Len(p)) = p

\* s[n:]
Drop(s, n) == SubSeq(s, n + 1, Len(s))

\* s.lstrip() / s.rstrip() / s.strip()
RECURSIVE LStrip(_)
LStrip(s) ==
    IF s # <<>> /\ Head(s) \in Whitespace THEN LStrip(Tail(s)) ELSE s

RECURSIVE RStrip(_)
RStrip(s) ==
    IF s # <<>> /\ s[Len(s)] \in Whitespace
    THEN RStrip(SubSeq(s, 1, Len(s) - 1)) ELSE s

Strip(s) == RStrip(LStrip(s))

\* the concatenation of a sequence of sequences
RECURSIVE Concat(_)
Concat(ss) == IF ss = <<>> THEN <<>> ELSE Head(ss) \o Concat(Tail(ss))

\* the k-th smallest element of a finite set of integers
Kth(S, k) == CHOOSE x \in S : Cardinality({y \in S : y < x}) = k - 1

\* the members of a finite set of integers in ascending order
Ascending(S) == [k \in 1..Cardinality(S) |-> Kth(S, k)]

\* the positions at which sep occurs in s
Occurrences(s, sep) ==
    {i \in 1..(Len(s) - Len(sep) + 1) : SubSeq(s, i, i + Len(sep) - 1) = sep}

\* sep in s
Contains(s, sep) == Occurrences(s, sep) # {}

\* s.split(sep) for a non-empty separator: left to right, non-overlapping
RECURSIVE SplitOn(_, _)
SplitOn(s, sep) ==
    LET occ == Occurrences(s, sep)
    IN  IF occ = {} THEN <<s>>
        ELSE LET i == Kth(occ, 1)
             IN  <<SubSeq(s, 1, i - 1)>> \o SplitOn(Drop(s, i + Len(sep) - 1), sep)

\* s.split(): the maximal runs of non-whitespace characters
SplitWs(s) ==
    LET IsWs(i) == i < 1 \/ i > Len(s) \/ s[i] \in Whitespace
        starts  == {i \in 1..Len(s) : ~IsWs(i) /\ IsWs(i - 1)}
        EndOf(i) == Kth({j \in i..Len(s) : IsWs(j + 1)}, 1)
        st      == Ascending(starts)
    IN  [k \in 1..Len(st) |-> SubSeq(s, st[k], EndOf(st[k]))]

\* sep.join(parts)
RECURSIVE Join(_, _)
Join(parts, sep) ==
    IF parts = <<>> THEN <<>>
    ELSE IF Len(parts) = 1 THEN parts[1]
    ELSE parts[1] \o sep \o Join(Tail(parts), sep)

\* path components without the empty and the "." ones
RECURSIVE SelectParts(_)
SelectParts(parts) ==
    IF parts = <<>> THEN <<>>
    ELSE IF Head(parts) = <<>> \/ Head(parts) = <<".">>
         THEN SelectParts(Tail(parts))
         ELSE <<Head(parts)>> \o SelectParts(Tail(parts))

(***************************************************************************)
(* Paths (POSIX flavour of os.path and pathlib)                            *)
(***************************************************************************)
Slash == <<"/">>

\* the components of a path text: empty and "." components carry nothing
PathParts(text) == SelectParts(SplitOn(text, Slash))

IsAbs(text) == StartsWith(text, Slash)

\* the text of an absolute path with the given components
AbsText(parts) == Slash \o Join(parts, Slash)

\* pathlib: Path(text), as [abs, parts]
PurePath(text) == [abs |-> IsAbs(text), parts |-> PathParts(text)]

\* pathlib: a / b
PathJoin(a, b) ==
    IF b.abs THEN b ELSE [abs |-> a.abs, parts |-> a.parts \o b.parts]

\* pathlib: p.as_posix()
AsPosix(p) ==
    IF p.abs THEN AbsText(p.parts)
    ELSE IF p.parts = <<>> THEN <<".">> ELSE Join(p.parts, Slash)

\* os.path.join(a, b)
OsPathJoin(a, b) ==
    IF IsAbs(b) THEN b
    ELSE IF a = <<>> \/ a[Len(a)] = "/" THEN a \o b
    ELSE a \o Slash \o b

(***************************************************************************)
(* base64 (the standard library's b64encode / b64decode)                   *)
(***************************************************************************)
B64Alphabet ==
    <<"A", "B", "C", "D", "E", "F", "G", "H", "I", "J", "K", "L", "M", "N",
    "O", "P", "Q", "R", "S", "T", "U", "V", "W", "X", "Y", "Z", "a", "b", "c",
    "d", "e", "f", "g", "h", "i", "j", "k", "l", "m", "n", "o", "p", "q", "r",
    "s", "t", "u", "v", "w", "x", "y", "z", "0", "1", "2", "3", "4", "5", "6",
    "7", "8", "9", "+", "/">>

B64Chars == {B64Alphabet[i] : i \in 1..64}

\* the 6-bit value of a character of the alphabet
B64Val == [c \in B64Chars |-> (CHOOSE i \in 1..64 : B64Alphabet[i] = c) - 1]

Pow64(k) == CASE k = 0 -> 1 [] k = 1 -> 64 [] k = 2 -> 4096 [] k = 3 -> 262144

\* base64.b64encode(data).decode("ascii")
b64encode(data) ==
    LET n == Len(data)
        At(i) == IF i <= n THEN data[i] ELSE 0
        Ch(j) ==
            LET g == (j - 1) \div 4
                k == (j - 1) % 4
                v == At(3 * g + 1) * 65536 + At(3 * g + 2) * 256 + At(3 * g + 3)
            IN  IF (k = 2 /\ 3 * g + 2 > n) \/ (k = 3 /\ 3 * g + 3 > n)
                THEN "="
                ELSE B64Alphabet[((v \div Pow64(3 - k)) % 64) + 1]
    IN  [j \in 1..(4 * ((n + 2) \div 3)) |-> Ch(j)]

\* binascii.a2b_base64 in its default (non-strict) mode: characters outside
\* the alphabet are skipped, decoding stops at a complete padding, and a
\* dangling group is an error.  st = [q, left, pads, out, stop]
A2bStep(st, c) ==
    IF st.stop THEN st
    ELSE IF c = "=" THEN
        IF st.q >= 2 /\ st.q + st.pads + 1 >= 4
        THEN [st EXCEPT !.stop = TRUE]
        ELSE IF st.q >= 2 THEN [st EXCEPT !.pads = st.pads + 1] ELSE st
    ELSE IF c \notin B64Chars THEN st
    ELSE LET v == B64Val[c] IN
        CASE st.q = 0 -> [st EXCEPT !.q = 1, !.left = v, !.pads = 0]
          [] st.q = 1 -> [st EXCEPT !.q = 2, !.pads = 0, !.left = v % 16,
                             !.out = Append(st.out, st.left * 4 + v \div 16)]
          [] st.q = 2 -> [st EXCEPT !.q = 3, !.pads = 0, !.left = v % 4,
                             !.out = Append(st.out, st.left * 16 + v \div 4)]
          [] st.q = 3 -> [st EXCEPT !.q = 0, !.pads = 0, !.left = 0,
                             !.out = Append(st.out, st.left * 64 + v)]

\* the decoder's loop over the characters s[lo..hi] (split in halves to keep
\* the evaluation shallow; once stopped, the remaining characters are unread)
RECURSIVE A2bRange(_, _, _, _)
A2bRange(st, s, lo, hi) ==
    IF lo > hi THEN st
    ELSE IF lo = hi THEN A2bStep(st, s[lo])
    ELSE LET mid  == (lo + hi) \div 2
             left == A2bRange(st, s, lo, mid)
         IN  IF left.stop THEN left ELSE A2bRange(left, s, mid + 1, hi)

A2bRun(st, s) == A2bRange(st, s, 1, Len(s))

\* base64.b64decode(s) of a str: [err, bytes], err one of "none",
\* "ValueError" (a non-ASCII character), "binascii.Error" (bad padding)
b64decode(s) ==
    IF \E i \in 1..Len(s) : s[i] \in NonAscii
    THEN [err |-> "ValueError", bytes |-> <<>>]
    ELSE LET st == A2bRun([q |-> 0, left |-> 0, pads |-> 0, out |-> <<>>,
                           stop |-> FALSE], s)
         IN  IF ~st.stop /\ st.q # 0
             THEN [err |-> "binascii.Error", bytes |-> <<>>]
             ELSE [err |-> "none", bytes |-> st.out]

(***************************************************************************)
(* b64_encode_stream                                                       *)
(***************************************************************************)
\* for i in range(0, len(out), wrap): yield out[i : i + wrap]
WrapLines(out, wrap) ==
    [i \in 1..((Len(out) + wrap - 1) \div wrap) |->
        SubSeq(out, (i - 1) * wrap + 1, Min(i * wrap, Len(out)))]

\* what is left in buf after the multiple-of-3 prefix was encoded
CarryDropped(buf, take) == <<>>
Carry(buf, take) == Drop(buf, take)

\* take = (len(buf) // 3) * 3: how much of buf is encoded now
TakeAll(b) == Len(b)
Take(b) == (Len(b) \div 3) * 3

\* one iteration of "for chunk in src": [buf, lines]
B64Chunk(buf, chunk, wrap) ==
    LET b    == buf \o chunk
        take == Take(b)
    IN  IF take # 0
        THEN [buf |-> Carry(b, take),
              lines |-> WrapLines(b64encode(SubSeq(b, 1, take)), wrap)]
        ELSE [buf |-> b, lines |-> <<>>]

\* the final "if buf:" flush: the lines it yields
B64Flush(buf, wrap) ==
    IF buf # <<>> THEN WrapLines(b64encode(buf), wrap) ELSE <<>>

(***************************************************************************)
(* The file system (what os.listdir, os.path.isdir/isfile/realpath and     *)
(* open see).  fs = [nodes, denied, broken]: nodes maps the components of  *)
(* an absolute path to a file, a directory or a symbolic link; listing a   *)
(* directory of denied raises PermissionError, one of broken another       *)
(* OSError.  The root directory "/" is the empty path.                     *)
(***************************************************************************)
Nm(c) == <<c>>

AbsentNode == [kind |-> "absent", data |-> <<>>, target |-> <<>>]
FileNode(data) == [kind |-> "file", data |-> data, target |-> <<>>]
DirNode == [kind |-> "dir", data |-> <<>>, target |-> <<>>]
LinkNode(target) == [kind |-> "link", data |-> <<>>, target |-> target]

\* how many symbolic links one resolution follows before giving up (ELOOP)
MaxLinkHops == 4

\* resolution of the components rest below the real directory cur
RECURSIVE ResolveFrom(_, _, _, _)
ResolveFrom(f, cur, rest, fuel) ==
    IF rest = <<>> THEN [ok |-> TRUE, parts |-> cur]
    ELSE LET p == Append(cur, Head(rest))
         IN  IF p \notin DOMAIN f.nodes
             THEN [ok |-> FALSE, parts |-> cur \o rest]
             ELSE LET n == f.nodes[p]
                  IN  CASE n.kind = "link" ->
                             IF fuel = 0
                             THEN [ok |-> FALSE, parts |-> cur \o rest]
                             ELSE ResolveFrom(f, <<>>, n.target \o Tail(rest),
                                              fuel - 1)
                        [] n.kind = "file" ->
                             IF Tail(rest) = <<>>
                             THEN [ok |-> TRUE, parts |-> p]
                             ELSE [ok |-> FALSE, parts |-> cur \o rest]
                        [] n.kind = "dir" ->
                             ResolveFrom(f, p, Tail(rest), fuel)

Resolve(f, text) == ResolveFrom(f, <<>>, PathParts(text), MaxLinkHops)

\* the kind of what the path leads to, symbolic links followed
StatKind(f, text) ==
    LET r == Resolve(f, text)
    IN  IF ~r.ok THEN "none"
        ELSE IF r.parts = <<>> THEN "dir"
        ELSE f.nodes[r.parts].kind

\* os.path.exists / isdir / isfile / realpath
exists(f, text) == StatKind(f, text) # "none"
isdir(f, text) == StatKind(f, text) = "dir"
isfile(f, text) == StatKind(f, text) = "file"
realpath(f, text) == AbsText(Resolve(f, text).parts)

\* the names os.listdir returns, as a set (their order is the system's)
ListNames(f, text) ==
    LET d == Resolve(f, text).parts
    IN  {q[Len(q)] : q \in {x \in DOMAIN f.nodes :
                               Len(x) = Len(d) + 1 /\ SubSeq(x, 1, Len(d)) = d}}

\* the outcome of os.listdir: "ok", "PermissionError" or "OSError"
ListOutcome(f, text) ==
    LET r == Resolve(f, text)
    IN  IF ~r.ok \/ StatKind(f, text) # "dir" THEN "OSError"
        ELSE IF r.parts \in f.denied THEN "PermissionError"
        ELSE IF r.parts \in f.broken THEN "OSError"
        ELSE "ok"

\* the bytes of a regular file
FileData(f, text) == f.nodes[Resolve(f, text).parts].data

(***************************************************************************)
(* return_full_free                                                        *)
(***************************************************************************)
M_loop ==
    <<"_", "l", "o", "o", "p", "_", "d", "e", "t", "e", "c", "t", "e", "d">>
M_permfor ==
    <<"_", "p", "e", "r", "m", "i", "s", "s", "i", "o", "n", "_", "d", "e",
      "n", "i", "e", "d", "_", "f", "o", "r", ":">>
M_errcolon ==
    <<"_", "e", "r", "r", "o", "r", "_", "a", "c", "c", "e", "s", "s", "i",
      "n", "g", ":">>
\* the text of the OSError in the marker
ErrText == <<"E", "I", "O">>

\* a node of the result list: {path: []} or a str (a file path or a marker)
DictNode(text) == [kind |-> "dict", text |-> text, children |-> <<>>]
StrNode(text) == [kind |-> "str", text |-> text, children |-> <<>>]

\* _valid_path(target_path, is_file): TRUE when it raises ValueError
ValidPathRaises(f, text, is_file) ==
    \/ ~exists(f, text)
    \/ is_file /\ ~isfile(f, text)
    \/ ~is_file /\ ~isdir(f, text)

\* whether a directory entry is queued for exploration
AlreadyVisitedNever(visited, real) == FALSE
AlreadyVisited(visited, real) == real \in visited

\* the body of "for item_name in listdir(current_directory)" over the names
\* in the order the listing gave them; w = [list, visited, queue, loops]
RECURSIVE WalkEntries(_, _, _, _)
WalkEntries(f, current_directory, names, w) ==
    IF names = <<>> THEN w
    ELSE LET item_full_path == OsPathJoin(current_directory, Head(names))
             item_real_path == realpath(f, item_full_path)
             w1 ==
                IF isdir(f, item_full_path) THEN
                    IF ~AlreadyVisited(w.visited, item_real_path)
                    THEN [w EXCEPT
                            !.list = Append(@, DictNode(item_full_path)),
                            !.visited = @ \cup {item_real_path},
                            !.queue = Append(@, item_full_path)]
                    ELSE [w EXCEPT
                            !.list = Append(@, DictNode(item_full_path)),
                            !.loops = @ \cup {item_full_path}]
                ELSE IF isfile(f, item_full_path)
                THEN [w EXCEPT !.list = Append(@, StrNode(item_full_path))]
                ELSE w
         IN  WalkEntries(f, current_directory, Tail(names), w1)

\* the marker the except clauses append for a directory
FailureMarker(outcome, current_directory) ==
    IF outcome = "PermissionError"
    THEN StrNode(M_permfor \o current_directory)
    ELSE StrNode(M_errcolon \o current_directory \o <<":">> \o ErrText)

\* "except PermissionError" and "except OSError" around the listing: the
\* marker is appended and the while loop goes on with what is queued
ListFailureAbandons(w, outcome, current_directory) == [w EXCEPT !.queue = <<>>]
ListFailure(w, outcome, current_directory) ==
    [w EXCEPT !.list = Append(@, FailureMarker(outcome, current_directory))]

\* result_tree[key] = list (a dict keeps the position of an existing key)
SetKey(tree, key, list) ==
    IF \E i \in 1..Len(tree) : tree[i].root = key
    THEN [i \in 1..Len(tree) |->
            IF tree[i].root = key THEN [root |-> key, list |-> list] ELSE tree[i]]
    ELSE Append(tree, [root |-> key, list |-> list])

\* result_tree[key]
GetKey(tree, key) == (CHOOSE e \in {tree[i] : i \in 1..Len(tree)} : e.root = key).list

\* the orders in which a listing may return a set of names
Orders(S) ==
    {o \in [1..Cardinality(S) -> S] : \A i, j \in DOMAIN o : i # j => o[i] # o[j]}

\* cap on the listdir calls of one walk (never reached by the walker)
MaxListings == 12

\* "for base_path_str in base_paths": validation and set-up of one root
WalkStartRoot ==
    /\ walk_pc = "next_root"
    /\ root_idx <= Len(base_paths)
    /\ LET base_path_str == base_paths[root_idx]
       IN  IF ValidPathRaises(fs, base_path_str, FALSE)
           THEN /\ walk_pc' = "raised"
                /\ UNCHANGED <<impVars, pool, result_tree, directories_to_explore,
                               visited_real_paths>>
           ELSE /\ result_tree' = SetKey(result_tree, base_path_str,
                                         <<DictNode(base_path_str)>>)
                /\ visited_real_paths' = {realpath(fs, base_path_str)}
                /\ directories_to_explore' = <<base_path_str>>
                /\ walk_pc' = "exploring"
    /\ UNCHANGED <<impVars, pool, fs, base_paths, root_idx, listings, loops_met,
                   earlier_trees, b64Vars,
                   encVars, dec>>

\* one iteration of "while directories_to_explore": pop, list, classify
WalkExplore ==
    /\ walk_pc = "exploring"
    /\ directories_to_explore # <<>>
    /\ listings < MaxListings
    /\ LET base_path_str == base_paths[root_idx]
           current_directory == Head(directories_to_explore)
           w0 == [list |-> GetKey(result_tree, base_path_str),
                  visited |-> visited_real_paths,
                  queue |-> Tail(directories_to_explore),
                  loops |-> {}]
           outcome == ListOutcome(fs, current_directory)
       IN  \E order \in Orders(ListNames(fs, current_directory)) :
             LET w == IF outcome = "ok"
                      THEN WalkEntries(fs, current_directory, order, w0)
                      ELSE ListFailure(w0, outcome, current_directory)
             IN  /\ result_tree' = SetKey(result_tree, base_path_str, w.list)
                 /\ visited_real_paths' = w.visited
                 /\ directories_to_explore' = w.queue
                 /\ loops_met' = loops_met \cup
                                   {<<root_idx, q>> : q \in w.loops}
                 /\ walk_pc' = IF w.queue = <<>> THEN "next_root"
                                ELSE "exploring"
                 /\ root_idx' = IF w.queue = <<>> THEN root_idx + 1
                                 ELSE root_idx
    /\ listings' = listings + 1
    /\ UNCHANGED <<impVars, pool, fs, base_paths, earlier_trees, b64Vars, encVars, dec>>

\* "return result_tree"
WalkReturn ==
    /\ walk_pc = "next_root"
    /\ root_idx > Len(base_paths)
    /\ walk_pc' = "done"
    /\ UNCHANGED <<impVars, pool, fs, base_paths, root_idx, result_tree,
                   directories_to_explore, visited_real_paths, listings,
                   loops_met, earlier_trees, b64Vars, encVars, dec>>

WalkStep == WalkStartRoot \/ WalkExplore \/ WalkReturn

\* how many more times the same roots are walked
MaxRewalks == 1

\* return_full_free called again with the same arguments, the file system
\* being as it was
WalkAgain ==
    /\ walk_pc = "done"
    /\ Len(earlier_trees) < MaxRewalks
    /\ earlier_trees' = Append(earlier_trees, result_tree)
    /\ root_idx' = 1
    /\ result_tree' = <<>>
    /\ directories_to_explore' = <<>>
    /\ visited_real_paths' = {}
    /\ walk_pc' = "next_root"
    /\ listings' = 0
    /\ loops_met' = {}
    /\ UNCHANGED <<impVars, pool, fs, base_paths, b64Vars, encVars, dec>>

\* the state of a walk that has not begun
WalkBegin ==
    /\ root_idx = 1
    /\ result_tree = <<>>
    /\ directories_to_explore = <<>>
    /\ visited_real_paths = {}
    /\ walk_pc = "next_root"
    /\ listings = 0
    /\ loops_met = {}
    /\ earlier_trees = <<>>

(***************************************************************************)
(* Text of numbers and digests                                             *)
(***************************************************************************)
Digits == <<"0", "1", "2", "3", "4", "5", "6", "7", "8", "9">>

HexDigits ==
    <<"0", "1", "2", "3", "4", "5", "6", "7", "8", "9", "a", "b", "c", "d",
      "e", "f">>

\* str(n) of a natural number
RECURSIVE DecText(_)
DecText(n) ==
    IF n < 10 THEN <<Digits[n + 1]>>
    ELSE Append(DecText(n \div 10), Digits[(n % 10) + 1])

\* the printable ASCII characters, from " " (code 32) to "~" (code 126);
\* the double quote, the backslash and the backtick are named
AsciiTable ==
    <<" ", "!", "DQUOTE", "#", "$", "%", "&", "'", "(", ")", "*", "+", ",", "-",
    ".", "/", "0", "1", "2", "3", "4", "5", "6", "7", "8", "9", ":", ";",
    "<", "=", ">", "?", "@", "A", "B", "C", "D", "E", "F", "G", "H", "I",
    "J", "K", "L", "M", "N", "O", "P", "Q", "R", "S", "T", "U", "V", "W",
    "X", "Y", "Z", "[", "BACKSLASH", "]", "^", "_", "BACKTICK", "a", "b", "c", "d", "e",
    "f", "g", "h", "i", "j", "k", "l", "m", "n", "o", "p", "q", "r", "s",
    "t", "u", "v", "w", "x", "y", "z", "{", "|", "}", "~">>

\* text.encode("utf-8") of ASCII text
Utf8(text) ==
    [i \in 1..Len(text) |->
        31 + (CHOOSE k \in 1..Len(AsciiTable) : AsciiTable[k] = text[i])]

\* bytes.hex()
Hex(data) ==
    [j \in 1..(2 * Len(data)) |->
        IF j % 2 = 1 THEN HexDigits[(data[(j + 1) \div 2] \div 16) + 1]
        ELSE HexDigits[(data[j \div 2] % 16) + 1]]

\* hashlib.sha256(data).hexdigest(), as a collision-free digest: the
\* hexadecimal text of the hashed bytes
sha256hex(data) == Hex(data)

(***************************************************************************)
(* aggregate_to_backup and its helpers                                     *)
(***************************************************************************)
M_perm ==
    <<"_", "p", "e", "r", "m", "i", "s", "s", "i", "o", "n", "_", "d", "e",
      "n", "i", "e", "d">>
M_err ==
    <<"_", "e", "r", "r", "o", "r", "_", "a", "c", "c", "e", "s", "s", "i",
      "n", "g">>
T_root_id == <<" ", "r", "o", "o", "t", "_", "i", "d", "=">>
T_rel == <<" ", "r", "e", "l", "=">>
T_src ==
    <<" ", "s", "r", "c", "_", "f", "u", "l", "l", "_", "p", "o", "s", "i",
      "x", "=">>
T_enc == <<" ", "e", "n", "c", "o", "d", "i", "n", "g", "=", "b", "6", "4">>
T_size == <<" ", "s", "i", "z", "e", "=">>
T_sha256 == <<" ", "s", "h", "a", "2", "5", "6", "=">>
T_version == <<" ", "v", "e", "r", "s", "i", "o", "n", "=">>
T_root_posix ==
    <<" ", "r", "o", "o", "t", "_", "p", "o", "s", "i", "x", "=">>

\* to_posix(path)
to_posix(text) == AsPosix(PurePath(text))

\* is_special_marker(node)
is_special_marker(node) ==
    StartsWith(node, M_loop) \/ StartsWith(node, M_perm) \/ StartsWith(node, M_err)

\* iter_tree_files._walk over one node and over a list of nodes: the
\* (root, file) pairs in tree order
RECURSIVE FilesOfNode(_, _)
RECURSIVE FilesOfList(_, _)
FilesOfNode(root, node) ==
    IF node.kind = "str"
    THEN IF ~is_special_marker(node.text)
         THEN <<[root |-> root, file |-> node.text]>> ELSE <<>>
    ELSE FilesOfList(root, node.children)

FilesOfList(root, list) ==
    IF list = <<>> THEN <<>>
    ELSE FilesOfNode(root, Head(list)) \o FilesOfList(root, Tail(list))

\* iter_tree_files(tree)
RECURSIVE iter_tree_files(_)
iter_tree_files(tree) ==
    IF tree = <<>> THEN <<>>
    ELSE FilesOfList(Head(tree).root, Head(tree).list)
         \o iter_tree_files(Tail(tree))

\* root_prefix_id(root): the first 16 characters of the digest of the POSIX
\* root path (the roots of the model are at most 8 characters long, so that
\* the prefix of the modelled digest is as collision-free as the real one)
root_prefix_id(root) ==
    LET h == sha256hex(Utf8(to_posix(root)))
    IN  SubSeq(h, 1, Min(16, Len(h)))

\* relative_under_root(root, file_path)
relative_under_root(f, root, file_path) ==
    LET root_path == Resolve(f, root).parts
        file_path_resolved == Resolve(f, file_path).parts
        name == PathParts(file_path)
    IN  IF /\ Len(file_path_resolved) >= Len(root_path)
           /\ SubSeq(file_path_resolved, 1, Len(root_path)) = root_path
        THEN AsPosix([abs |-> FALSE,
                      parts |-> Drop(file_path_resolved, Len(root_path))])
        ELSE IF name = <<>> THEN <<>> ELSE name[Len(name)]

\* the lines of the archive
MetaVersionLine == META_PREFIX \o T_version \o DecText(VERSION)
MetaRootLine(rid, rposix) == META_PREFIX \o T_root_id \o rid \o T_root_posix \o rposix
HeaderLine(rid, rel_path, full_path) ==
    HEADER_PREFIX \o T_root_id \o rid \o T_rel \o rel_path
                  \o T_src \o full_path \o T_enc
TrailerLine(size, digest) ==
    HEADER_PREFIX \o T_size \o DecText(size) \o T_sha256 \o digest
PayloadLine(b64_line) == PAYLOAD_PREFIX \o <<" ">> \o b64_line
PayloadLines(lines) == [i \in 1..Len(lines) |-> PayloadLine(lines[i])]

\* the text lines of the file after the writes in written, each write being
\* one of the texts above followed by a newline
FileLines(written) ==
    Concat([i \in 1..Len(written) |-> SplitOn(written[i], <<"\n">>)])

\* roots_meta: root id -> POSIX root, one entry per distinct id (a later
\* root with the same id replaces the value)
RootsMeta(tree) ==
    LET ids == {root_prefix_id(tree[i].root) : i \in 1..Len(tree)}
        Last(id) == Kth({-i : i \in {j \in 1..Len(tree) :
                                       root_prefix_id(tree[j].root) = id}}, 1)
    IN  [id \in ids |-> to_posix(tree[-Last(id)].root)]

\* whether open(file_path, "rb") raises OSError
OpenRaises(f, file_path) ==
    ~isfile(f, file_path) \/ Resolve(f, file_path).parts \in f.denied

\* the locals of an encoder that has not run
EncFresh ==
    [pc |-> "init", files |-> <<>>, idx |-> 1, data |-> <<>>, pos |-> 0,
     buf |-> <<>>, size |-> 0, sha256 |-> <<>>, file_count |-> 0,
     exc |-> "none", io_failed |-> FALSE]

\* open the output, write the open delimiter and the meta lines; sorted()
\* orders the root lines by digest, which the model leaves open
EncBegin(tree) ==
    /\ enc.pc = "init"
    /\ LET roots_meta == RootsMeta(tree)
       IN  \E order \in Orders(DOMAIN roots_meta) :
              archive' = <<OPEN_FOLDER_DELIMITER, MetaVersionLine>>
                  \o [i \in 1..Len(order) |->
                        MetaRootLine(order[i], roots_meta[order[i]])]
    /\ enc' = [enc EXCEPT !.pc = "next_file", !.files = iter_tree_files(tree),
                          !.idx = 1]
    /\ UNCHANGED <<impVars, pool, fs, fs_changes, b64Vars, walkVars, dec>>

\* "if not os.path.isfile(file_path): continue"
EncSkip ==
    /\ enc.pc = "next_file"
    /\ enc.idx <= Len(enc.files)
    /\ ~isfile(fs, enc.files[enc.idx].file)
    /\ enc' = [enc EXCEPT !.idx = @ + 1]
    /\ UNCHANGED <<impVars, pool, fs, archive, fs_changes, b64Vars, walkVars, dec>>

\* the record's begin-marker and first header line
EncRecordBegin ==
    /\ enc.pc = "next_file"
    /\ enc.idx <= Len(enc.files)
    /\ isfile(fs, enc.files[enc.idx].file)
    /\ LET root == enc.files[enc.idx].root
           file_path == enc.files[enc.idx].file
           rid == root_prefix_id(root)
           rel_path == to_posix(relative_under_root(fs, root, file_path))
           full_path == to_posix(file_path)
       IN  archive' = archive \o <<RECORD_BEGIN,
                                   HeaderLine(rid, rel_path, full_path)>>
    /\ enc' = [enc EXCEPT !.pc = "open", !.sha256 = <<>>, !.size = 0,
                          !.buf = <<>>]
    /\ UNCHANGED <<impVars, pool, fs, fs_changes, b64Vars, walkVars, dec>>

\* read_chunks' "except OSError": the error is logged and a BackupError
\* raised, which ends the call
ReadFailureIgnored(e) ==
    [e EXCEPT !.pc = "read", !.pos = Len(e.data), !.io_failed = TRUE]
ReadFailure(e) ==
    [e EXCEPT !.pc = "raised", !.exc = "BackupError", !.io_failed = TRUE]

\* read_chunks: open(file_path, "rb"), at the first request for a chunk
EncOpen ==
    /\ enc.pc = "open"
    /\ IF OpenRaises(fs, enc.files[enc.idx].file)
       THEN enc' = ReadFailure(enc)
       ELSE enc' = [enc EXCEPT !.pc = "read", !.pos = 0,
                               !.data = FileData(fs, enc.files[enc.idx].file)]
    /\ UNCHANGED <<impVars, pool, fs, archive, fs_changes, b64Vars, walkVars, dec>>

\* read_chunks, one turn of its loop: the chunk read is counted and hashed
\* before it is yielded
ReadChunkUnhashed(e, chunk) ==
    [e EXCEPT !.pos = @ + Len(chunk), !.size = @ + Len(chunk)]
ReadChunk(e, chunk) ==
    [e EXCEPT !.pos = @ + Len(chunk), !.size = @ + Len(chunk),
              !.sha256 = @ \o chunk]

\* one non-empty chunk read, hashed, encoded, and its lines written
EncRead ==
    /\ enc.pc = "read"
    /\ enc.pos < Len(enc.data)
    /\ LET chunk == SubSeq(enc.data, enc.pos + 1,
                           Min(enc.pos + CHUNK_SIZE, Len(enc.data)))
           r == B64Chunk(enc.buf, chunk, B64_WRAP)
       IN  /\ enc' = [ReadChunk(enc, chunk) EXCEPT !.buf = r.buf]
           /\ archive' = archive \o PayloadLines(r.lines)
    /\ UNCHANGED <<impVars, pool, fs, fs_changes, b64Vars, walkVars, dec>>

\* src_file.read raises OSError: the file became unreadable mid-stream
EncReadError ==
    /\ enc.pc = "read"
    /\ fs_changes < MaxFsChanges
    /\ fs_changes' = fs_changes + 1
    /\ enc' = ReadFailure(enc)
    /\ UNCHANGED <<impVars, pool, fs, archive, b64Vars, walkVars, dec>>

\* the read that returns b"": final flush, trailer, end-marker
EncRecordEnd ==
    /\ enc.pc = "read"
    /\ enc.pos = Len(enc.data)
    /\ archive' = archive \o PayloadLines(B64Flush(enc.buf, B64_WRAP))
                     \o <<TrailerLine(enc.size, sha256hex(enc.sha256)),
                          RECORD_END>>
    /\ enc' = [enc EXCEPT !.pc = "next_file", !.idx = @ + 1, !.buf = <<>>,
                          !.file_count = @ + 1]
    /\ UNCHANGED <<impVars, pool, fs, fs_changes, b64Vars, walkVars, dec>>

\* the footer, once every pair was processed
EncFinish ==
    /\ enc.pc = "next_file"
    /\ enc.idx > Len(enc.files)
    /\ archive' = Append(archive, CLOSE_FOLDER_DELIMITER)
    /\ enc' = [enc EXCEPT !.pc = "done"]
    /\ UNCHANGED <<impVars, pool, fs, fs_changes, b64Vars, walkVars, dec>>

EncRunning == enc.pc \in {"next_file", "open", "read"}

\* the environment removes a regular file while the encoder runs
FsUnlink ==
    /\ EncRunning
    /\ fs_changes < MaxFsChanges
    /\ \E q \in {x \in DOMAIN fs.nodes : fs.nodes[x].kind = "file"} :
          fs' = [fs EXCEPT !.nodes = [x \in DOMAIN fs.nodes \ {q} |-> fs.nodes[x]]]
    /\ fs_changes' = fs_changes + 1
    /\ UNCHANGED <<impVars, pool, enc, archive, b64Vars, walkVars, dec>>

\* the environment makes a regular file unreadable while the encoder runs
FsChmod ==
    /\ EncRunning
    /\ fs_changes < MaxFsChanges
    /\ \E q \in {x \in DOMAIN fs.nodes : fs.nodes[x].kind = "file"} :
          fs' = [fs EXCEPT !.denied = @ \cup {q}]
    /\ fs_changes' = fs_changes + 1
    /\ UNCHANGED <<impVars, pool, enc, archive, b64Vars, walkVars, dec>>

EncStep ==
    \/ EncSkip \/ EncRecordBegin \/ EncOpen \/ EncRead \/ EncReadError
    \/ EncRecordEnd \/ EncFinish

(***************************************************************************)
(* unpack_from_backup                                                      *)
(***************************************************************************)
K_root_id == <<"r", "o", "o", "t", "_", "i", "d">>
K_rel == <<"r", "e", "l">>
K_sha256 == <<"s", "h", "a", "2", "5", "6">>
K_size == <<"s", "i", "z", "e">>
S_root_id == <<"r", "o", "o", "t", "_", "i", "d", "=">>
S_root_posix == <<"r", "o", "o", "t", "_", "p", "o", "s", "i", "x", "=">>
T_unknown == <<"u", "n", "k", "n", "o", "w", "n", "_">>

\* target_extraction_dir: /out
TargetBase == [abs |-> TRUE, parts |-> <<<<"o", "u", "t">>>>]

\* the locals at the start of the loop over the lines of the backup file
\* (input; tampered tells where it differs from what the encoder wrote;
\* line is the line processed last, empty at the start and at the end);
\* files, dirs and handles are the output files, the directories and the
\* file objects made
DecFresh(skip, lines, tampered) ==
    [pc |-> "running", skip_errors |-> skip, i |-> 1,
     input |-> lines, tampered |-> tampered,
     root_map |-> <<>>, file_count |-> 0,
     current_out_file |-> 0, current_sha |-> <<>>,
     expected_sha |-> <<>>, expected_size |-> 0, actual_size |-> 0,
     handles |-> <<>>, files |-> <<>>, dirs |-> {<<>>, TargetBase.parts},
     exc |-> "none", closes |-> {}, trailer |-> <<>>, unknown_roots |-> {},
     unrecognised |-> FALSE, line |-> <<>>]

\* the key=value items of a header line, in order: [key, value]
HeaderItems(line) ==
    LET items == SplitWs(Strip(Drop(line, Len(HEADER_PREFIX))))
        withEq == {k \in 1..Len(items) : Contains(items[k], <<"=">>)}
        idx == Ascending(withEq)
    IN  [k \in 1..Len(idx) |->
            LET it == items[idx[k]]
                e  == Kth(Occurrences(it, <<"=">>), 1)
            IN  [key |-> SubSeq(it, 1, e - 1), value |-> Drop(it, e)]]

\* key in kv / kv[key] of the dict built from the items (the last one wins)
KvHas(kv, key) == \E k \in 1..Len(kv) : kv[k].key = key
KvGet(kv, key) == kv[-Kth({-k : k \in {j \in 1..Len(kv) : kv[j].key = key}}, 1)].value

\* int(text): [ok, value]; digits with an optional sign
ParseInt(text) ==
    LET body == IF text # <<>> /\ text[1] \in {"+", "-"} THEN Tail(text) ELSE text
        DigitVal(c) == (CHOOSE k \in 1..10 : Digits[k] = c) - 1
        Val[n \in 0..Len(body)] ==
            IF n = 0 THEN 0 ELSE 10 * Val[n - 1] + DigitVal(body[n])
    IN  IF body = <<>> \/ \E k \in 1..Len(body) :
                              body[k] \notin {Digits[j] : j \in 1..10}
        THEN [ok |-> FALSE, value |-> 0]
        ELSE [ok |-> TRUE,
              value |-> IF text[1] = "-" THEN -Val[Len(body)] ELSE Val[Len(body)]]

\* s.lstrip("/")
RECURSIVE LStripSlash(_)
LStripSlash(s) == IF s # <<>> /\ Head(s) = "/" THEN LStripSlash(Tail(s)) ELSE s

\* sanitize_root(root_posix)
sanitize_root(root_posix) ==
    LET root_clean == LStripSlash(root_posix)
    IN  IF Len(root_clean) >= 2 /\ root_clean[2] = ":"
        THEN PurePath(<<root_clean[1]>> \o Drop(root_clean, 2))
        ELSE PurePath(root_clean)

\* the directories on the way to a path: its proper prefixes
Ancestors(parts) == {SubSeq(parts, 1, n) : n \in 0..(Len(parts) - 1)}

\* the comparisons of close_current_file
ShaMismatch(d) ==
    d.expected_sha # <<>> /\ sha256hex(d.current_sha) # d.expected_sha
SizeUnchecked(d) == FALSE
SizeMismatch(d) == d.expected_size # d.actual_size

\* close_current_file(): exc is "BackupError" when it raises.  closes logs,
\* for the step being taken, the size and digest of each file object closed
\* and the trailer its record declared.
CloseCurrentFile(d) ==
    IF d.current_out_file # 0
    THEN LET d1 == [d EXCEPT
                      !.handles[d.current_out_file].closed = TRUE,
                      !.closes = @ \cup {[handle |-> d.current_out_file,
                                          size |-> d.actual_size,
                                          digest |-> sha256hex(d.current_sha),
                                          trailer |-> d.trailer]}]
         IN  IF (ShaMismatch(d) \/ SizeMismatch(d)) /\ ~d.skip_errors
             THEN [d1 EXCEPT !.exc = "BackupError"]
             ELSE [d1 EXCEPT !.current_out_file = 0, !.current_sha = <<>>]
    ELSE [d EXCEPT !.current_out_file = 0, !.current_sha = <<>>]

\* the meta branch: root_map[rid] = root_posix, or IndexError
MetaLine(d, line) ==
    IF Contains(line, S_root_id) /\ Contains(line, S_root_posix)
    THEN LET parts == SplitOn(Strip(Drop(line, Len(META_PREFIX))), T_root_posix)
             left  == SplitOn(parts[1], S_root_id)
         IN  IF Len(left) < 2 \/ Len(parts) < 2
             THEN [d EXCEPT !.exc = "IndexError"]
             ELSE LET rid == Strip(left[2])
                  IN  [d EXCEPT !.root_map =
                         [x \in DOMAIN d.root_map \cup {rid} |->
                            IF x = rid THEN Strip(parts[2]) ELSE d.root_map[x]]]
    ELSE d

\* the root directory name of a record: the registry's, or the placeholder
RootPathStr(d, rid) ==
    IF rid \in DOMAIN d.root_map THEN d.root_map[rid] ELSE T_unknown \o rid

\* 'if "root_id" in kv and "rel" in kv': make the directories, open the file
OpenRecord(d, kv) ==
    LET rid == KvGet(kv, K_root_id)
        out_path == PathJoin(PathJoin(TargetBase, sanitize_root(RootPathStr(d, rid))),
                             PurePath(KvGet(kv, K_rel))).parts
        mkdirFails == \E a \in Ancestors(out_path) : a \in DOMAIN d.files
        openFails == out_path \in d.dirs \/ out_path = <<>>
        d0 == IF rid \in DOMAIN d.root_map THEN d
              ELSE [d EXCEPT !.unknown_roots = @ \cup {rid}]
    IN  IF mkdirFails THEN [d0 EXCEPT !.exc = "OSError"]
        ELSE IF openFails
        THEN [d0 EXCEPT !.exc = "OSError", !.dirs = @ \cup Ancestors(out_path)]
        ELSE [d0 EXCEPT
                !.dirs = @ \cup Ancestors(out_path),
                !.files = [x \in DOMAIN d.files \cup {out_path} |->
                             IF x = out_path THEN <<>> ELSE d.files[x]],
                !.handles = Append(@, [path |-> out_path, closed |-> FALSE]),
                !.current_out_file = Len(d.handles) + 1,
                !.current_sha = <<>>,
                !.actual_size = 0]

\* 'if "sha256" in kv': the expected digest and size, or ValueError
ExpectRecord(d, kv) ==
    LET size == IF KvHas(kv, K_size) THEN ParseInt(KvGet(kv, K_size))
                ELSE [ok |-> TRUE, value |-> 0]
    IN  IF ~size.ok
        THEN [d EXCEPT !.expected_sha = KvGet(kv, K_sha256), !.exc = "ValueError"]
        ELSE [d EXCEPT !.expected_sha = KvGet(kv, K_sha256),
                       !.expected_size = size.value]

\* the trailer a header line with a sha256 field declares for its record:
\* its size and sha256 fields when it has both and neither is empty
DeclaredTrailer(kv) ==
    IF /\ KvHas(kv, K_size) /\ KvGet(kv, K_size) # <<>>
       /\ KvHas(kv, K_sha256) /\ KvGet(kv, K_sha256) # <<>>
    THEN <<[size |-> KvGet(kv, K_size), sha256 |-> KvGet(kv, K_sha256)]>>
    ELSE <<>>

\* the header branch
HeaderBranch(d, line) ==
    LET kv == HeaderItems(line)
        d1 == IF KvHas(kv, K_root_id) /\ KvHas(kv, K_rel)
              THEN OpenRecord(d, kv) ELSE d
        d2 == IF d1.exc = "none" /\ KvHas(kv, K_sha256)
              THEN [d1 EXCEPT !.trailer = DeclaredTrailer(kv)] ELSE d1
    IN  IF d2.exc = "none" /\ KvHas(kv, K_sha256) THEN ExpectRecord(d2, kv) ELSE d2

\* the payload branch: decode the line, write, hash and count the bytes
PayloadBranch(d, line) ==
    LET b64_data == Strip(Drop(line, Len(PAYLOAD_PREFIX)))
        r == b64decode(b64_data)
        path == d.handles[d.current_out_file].path
    IN  IF r.err # "none" THEN [d EXCEPT !.exc = r.err]
        ELSE [d EXCEPT !.files[path] = @ \o r.bytes,
                       !.current_sha = @ \o r.bytes,
                       !.actual_size = @ + Len(r.bytes)]

\* a line that no branch of the loop takes: nothing is done with it
\* (unrecognised notes that such a line, other than a delimiter, was met)
NoBranch(d, line) ==
    IF line \in {OPEN_FOLDER_DELIMITER, CLOSE_FOLDER_DELIMITER} THEN d
    ELSE [d EXCEPT !.unrecognised = TRUE]

\* the body of "for raw_line in backup_file" for one line
ProcessLine(d, raw_line) ==
    LET line == Strip(raw_line)
    IN  IF line = <<>> THEN d
        ELSE IF StartsWith(line, META_PREFIX) THEN MetaLine(d, line)
        ELSE IF line = RECORD_BEGIN
        THEN [CloseCurrentFile(d) EXCEPT !.trailer = <<>>]
        ELSE IF line = RECORD_END
        THEN LET d1 == CloseCurrentFile(d)
             IN  IF d1.exc # "none" THEN d1
                 ELSE [d1 EXCEPT !.file_count = @ + 1, !.trailer = <<>>]
        ELSE IF StartsWith(line, HEADER_PREFIX) THEN HeaderBranch(d, line)
        ELSE IF StartsWith(line, PAYLOAD_PREFIX) /\ d.current_out_file # 0
        THEN PayloadBranch(d, line)
        ELSE NoBranch(d, line)

\* how the call ends with exception exc in flight ("none": end of input):
\* "except (IOError, OSError)" turns an OSError into a BackupError, and
\* "finally: close_current_file()" may raise a BackupError of its own
Finish(d, exc) ==
    LET d1 == CloseCurrentFile([d EXCEPT !.exc = "none"])
        final == IF d1.exc # "none" THEN d1.exc
                 ELSE IF exc = "OSError" THEN "BackupError" ELSE exc
    IN  [d1 EXCEPT !.exc = final,
                   !.pc = IF final = "none" THEN "returned" ELSE "raised"]

\* one line read and processed
DecLine(raw_line) ==
    /\ dec.pc = "running"
    /\ LET d1 == ProcessLine([dec EXCEPT !.closes = {},
                                         !.line = Strip(raw_line)], raw_line)
       IN  dec' = IF d1.exc # "none" THEN Finish(d1, d1.exc)
                  ELSE [d1 EXCEPT !.i = @ + 1]
    /\ UNCHANGED <<impVars, pool, b64Vars, fs, walkVars, encVars>>

\* the end of the input
DecEof ==
    /\ dec.pc = "running"
    /\ dec' = Finish([dec EXCEPT !.closes = {}, !.line = <<>>], "none")
    /\ UNCHANGED <<impVars, pool, b64Vars, fs, walkVars, encVars>>

(***************************************************************************)
(* Specification SpecB64: b64_encode_stream fed one chunk at a time        *)
(***************************************************************************)
RECURSIVE SeqsUpTo(_, _)
SeqsUpTo(S, n) ==
    IF n = 0 THEN {<<>>}
    ELSE LET P == SeqsUpTo(S, n - 1)
         IN  P \cup {Append(s, x) : s \in {p \in P : Len(p) = n - 1}, x \in S}

ShortInputs == SeqsUpTo(ByteChoices, MaxBytes)

Hello == <<104, 101, 108, 108, 111>>

LongInputs == {[i \in 1..n |-> (i * 37 + n) % 256] : n \in LongLengths}

B64Inputs == ShortInputs \cup {Hello} \cup LongInputs

\* the wrap argument: its default, and two small multiples of 4
WrapChoices == {4, 8, B64_WRAP}

\* sizes of the next chunk the source iterable may yield
ChunkSizes(src, pos) ==
    LET rest == Len(src) - pos
    IN  IF Len(src) <= MaxBytes + 1 THEN 1..rest
        ELSE {k \in LongChunks : k <= rest} \cup {rest}

(***************************************************************************)
(* simple_import: change_sys_path and restore_sys_path; set_source_dir:    *)
(* _set_source_dir and _restore_sys_path, which the same modules call      *)
(* around them. Both alias the one list sys.path.                          *)
(***************************************************************************)
\* how many calls of the four functions one behaviour makes
MaxCalls == 5

None == <<>>

RunLibPath == "/p/src/public/run_lib"
StaticLibPath == "/p/src/public/static_lib"
SourcePath == "/p/src"

\* what packages_path() may give: the two directories found, or ValueError
\* when the search did not find them
PackagesPathOutcomes ==
    { [ok |-> TRUE, run_lib |-> RunLibPath, static_lib |-> StaticLibPath],
      [ok |-> FALSE, run_lib |-> "", static_lib |-> ""] }

ImpFresh ==
    [ calls |-> 0,
      last |-> "none",           \* what the last call was
      raised |-> FALSE,          \* whether it raised
      in_sequence |-> FALSE,     \* change_sys_path called since the last restore_sys_path
      before_first |-> <<>> ]    \* sys.path just before the first of these calls

\* if target_path not in sys_path: sys_path.append(target_path)
AppendAbsent(list, target_path) ==
    IF \E i \in 1..Len(list) : list[i] = target_path
    THEN list
    ELSE Append(list, target_path)

\* _INITIAL_SYS_PATH / _RAW_SYS_PATH: set by the first call only
CacheOnce(cache, list) == IF cache = None THEN <<list>> ELSE cache

change_sys_path(to_runlib, to_staticlib, found) ==
    /\ imp.calls < MaxCalls
    /\ INITIAL_SYS_PATH' = CacheOnce(INITIAL_SYS_PATH, sys_path)
    /\ LET raises == (to_runlib = to_staticlib) \/ ~found.ok
           target_path == IF to_runlib THEN found.run_lib ELSE found.static_lib
       IN  /\ sys_path' = IF raises THEN sys_path
                          ELSE AppendAbsent(sys_path, target_path)
           /\ imp' = [ calls |-> imp.calls + 1,
                       last |-> "change_sys_path",
                       raised |-> raises,
                       in_sequence |-> TRUE,
                       before_first |-> IF imp.in_sequence
                                        THEN imp.before_first
                                        ELSE sys_path ]
    /\ UNCHANGED <<RAW_SYS_PATH, b64Vars, fs, walkVars, encVars, dec, pool>>

restore_sys_path ==
    /\ imp.calls < MaxCalls
    /\ sys_path' = IF INITIAL_SYS_PATH = None THEN sys_path
                   ELSE INITIAL_SYS_PATH[1]
    /\ imp' = [imp EXCEPT !.calls = @ + 1,
                          !.last = IF imp.in_sequence THEN "restore_sys_path"
                                   ELSE "restore_sys_path alone",
                          !.raised = (INITIAL_SYS_PATH = None),
                          !.in_sequence = FALSE]
    /\ UNCHANGED <<INITIAL_SYS_PATH, RAW_SYS_PATH,
                   b64Vars, fs, walkVars, encVars, dec, pool>>

set_source_dir ==
    /\ imp.calls < MaxCalls
    /\ RAW_SYS_PATH' = CacheOnce(RAW_SYS_PATH, sys_path)
    /\ sys_path' = Append(sys_path, SourcePath)
    /\ imp' = [imp EXCEPT !.calls = @ + 1, !.last = "_set_source_dir",
                          !.raised = FALSE]
    /\ UNCHANGED <<INITIAL_SYS_PATH, b64Vars, fs, walkVars, encVars, dec, pool>>

set_source_dir_restore ==
    /\ imp.calls < MaxCalls
    /\ sys_path' = IF RAW_SYS_PATH = None THEN sys_path ELSE RAW_SYS_PATH[1]
    /\ imp' = [imp EXCEPT !.calls = @ + 1, !.last = "_restore_sys_path",
                          !.raised = (RAW_SYS_PATH = None)]
    /\ UNCHANGED <<INITIAL_SYS_PATH, RAW_SYS_PATH,
                   b64Vars, fs, walkVars, encVars, dec, pool>>

(***************************************************************************)
(* thread_requests.py: RequestWorker and RequestPool.execute_all.  The     *)
(* main thread creates one worker per task, starts them in order, joins    *)
(* them in order and collects their results; each worker is a thread of    *)
(* its own, so the workers' steps interleave freely with each other and    *)
(* with the main thread.  An Optional value is None or <<value>>.          *)
(***************************************************************************)
\* how many tasks one call of execute_all is given
MaxTasks == 3

TaskResult(task_id, success, value, error) ==
    [ task_id |-> task_id, success |-> success,
      value |-> value, error |-> error ]

\* RequestWorker.__init__: the thread is not started, the result is None
RequestWorker(task) ==
    [ task |-> task, result |-> None, state |-> "new", outcome |-> "none" ]

\* how the request of a worker ends: it returns a value, it raises an
\* exception derived from Exception, or it raises one derived from
\* BaseException only (SystemExit, KeyboardInterrupt, GeneratorExit)
RequestOutcomes == { "returns", "Exception", "BaseException" }

\* RequestWorker.run, after _execute ended with `outcome`: "except Exception"
\* takes the second outcome only; the third ends the thread with the result
\* still None
run(w, outcome) ==
    CASE outcome = "returns" ->
            <<TaskResult(w.task.task_id, TRUE, <<"value">>, None)>>
      [] outcome = "Exception" ->
            <<TaskResult(w.task.task_id, FALSE, None,
                         <<"Exception: message">>)>>
      [] OTHER -> w.result

PoolFresh(tasks) ==
    [ pc |-> "create", tasks |-> tasks, workers |-> <<>>, i |-> 1,
      results |-> <<>> ]

\* execute_all, "workers = [RequestWorker(self._req, t) for t in tasks]"
PoolCreate ==
    /\ pool.pc = "create"
    /\ pool' = [pool EXCEPT
                   !.workers = [k \in 1..Len(pool.tasks) |->
                                    RequestWorker(pool.tasks[k])],
                   !.i = 1,
                   !.pc = IF pool.tasks = <<>> THEN "return" ELSE "start"]
    /\ UNCHANGED <<impVars, b64Vars, fs, walkVars, encVars, dec>>

\* execute_all, one round of "for w in workers: w.start()"
PoolStart ==
    /\ pool.pc = "start"
    /\ pool' = [pool EXCEPT
                   !.workers[pool.i].state = "running",
                   !.i = IF pool.i = Len(pool.workers) THEN 1 ELSE @ + 1,
                   !.pc = IF pool.i = Len(pool.workers) THEN "join"
                          ELSE "start"]
    /\ UNCHANGED <<impVars, b64Vars, fs, walkVars, encVars, dec>>

\* a started worker: "val = self._execute()" returns or raises
WorkerExecute ==
    \E k \in 1..Len(pool.workers), outcome \in RequestOutcomes :
        /\ pool.workers[k].state = "running"
        /\ pool' = [pool EXCEPT !.workers[k].state = "executed",
                                !.workers[k].outcome = outcome]
        /\ UNCHANGED <<impVars, b64Vars, fs, walkVars, encVars, dec>>

\* the worker stores its result, if it does, and its thread ends
WorkerFinish ==
    \E k \in 1..Len(pool.workers) :
        /\ pool.workers[k].state = "executed"
        /\ pool' = [pool EXCEPT
                       !.workers[k].result =
                           run(pool.workers[k], pool.workers[k].outcome),
                       !.workers[k].state = "finished"]
        /\ UNCHANGED <<impVars, b64Vars, fs, walkVars, encVars, dec>>

\* execute_all, one round of "for w in workers: w.join()": it blocks until
\* that worker's thread has ended
PoolJoin ==
    /\ pool.pc = "join"
    /\ pool.workers[pool.i].state = "finished"
    /\ pool' = [pool EXCEPT
                   !.i = IF pool.i = Len(pool.workers) THEN 1 ELSE @ + 1,
                   !.pc = IF pool.i = Len(pool.workers) THEN "return"
                          ELSE "join"]
    /\ UNCHANGED <<impVars, b64Vars, fs, walkVars, encVars, dec>>

\* "[w.result for w in workers if w.result is not None]"
RECURSIVE Collected(_)
Collected(workers) ==
    IF workers = <<>> THEN <<>>
    ELSE (IF Head(workers).result # None THEN Head(workers).result
          ELSE <<>>) \o Collected(Tail(workers))

\* execute_all, the return statement
PoolReturn ==
    /\ pool.pc = "return"
    /\ pool' = [pool EXCEPT !.results = Collected(pool.workers),
                            !.pc = "returned"]
    /\ UNCHANGED <<impVars, b64Vars, fs, walkVars, encVars, dec>>

PoolIdle == pool = [PoolFresh(<<>>) EXCEPT !.pc = "idle"]


\* components that take no part in a specification stay as they are here
B64Idle ==
    /\ b64_src = <<>>
    /\ b64_wrap = B64_WRAP
    /\ b64_pos = 0
    /\ b64_buf = <<>>
    /\ b64_out = <<>>
    /\ b64_pc = "idle"

EmptyFs == [nodes |-> <<>>, denied |-> {}, broken |-> {}]

WalkIdle ==
    /\ base_paths = <<>>
    /\ root_idx = 1
    /\ result_tree = <<>>
    /\ directories_to_explore = <<>>
    /\ visited_real_paths = {}
    /\ walk_pc = "idle"
    /\ listings = 0
    /\ loops_met = {}
    /\ earlier_trees = <<>>

EncIdle ==
    /\ enc = [EncFresh EXCEPT !.pc = "idle"]
    /\ archive = <<>>
    /\ fs_changes = 0

ImpIdle ==
    /\ sys_path = <<>>
    /\ INITIAL_SYS_PATH = None
    /\ RAW_SYS_PATH = None
    /\ imp = ImpFresh

DecIdle == dec = [DecFresh(FALSE, <<>>, <<>>) EXCEPT !.pc = "idle"]

B64Init ==
    /\ fs = EmptyFs
    /\ WalkIdle
    /\ EncIdle
    /\ DecIdle
    /\ ImpIdle
    /\ PoolIdle
    /\ b64_src \in B64Inputs
    /\ b64_wrap \in WrapChoices
    /\ b64_pos = 0
    /\ b64_buf = <<>>
    /\ b64_out = <<>>
    /\ b64_pc = "feeding"

B64Feed ==
    /\ b64_pc = "feeding"
    /\ b64_pos < Len(b64_src)
    /\ \E k \in ChunkSizes(b64_src, b64_pos) :
          LET r == B64Chunk(b64_buf, SubSeq(b64_src, b64_pos + 1, b64_pos + k),
                            b64_wrap)
          IN  /\ b64_buf' = r.buf
              /\ b64_out' = b64_out \o r.lines
              /\ b64_pos' = b64_pos + k
    /\ UNCHANGED <<impVars, pool, b64_src, b64_wrap, b64_pc, fs, walkVars, encVars, dec>>

B64Finish ==
    /\ b64_pc = "feeding"
    /\ b64_pos = Len(b64_src)
    /\ b64_out' = b64_out \o B64Flush(b64_buf, b64_wrap)
    /\ b64_buf' = <<>>
    /\ b64_pc' = "done"
    /\ UNCHANGED <<impVars, pool, b64_src, b64_pos, b64_wrap, fs, walkVars, encVars, dec>>

B64Next == B64Feed \/ B64Finish

SpecB64 == B64Init /\ [][B64Next]_vars

\* the decoder's treatment of the lines: each decoded on its own
DecodedLines(lines) == [i \in 1..Len(lines) |-> b64decode(Strip(lines[i]))]

\* C6: whatever the chunking, decoding the emitted lines one at a time and
\* concatenating the results gives back exactly the bytes that were fed
C6_StreamingCorrect ==
    b64_pc = "done" =>
        LET d == DecodedLines(b64_out)
        IN  /\ \A i \in 1..Len(d) : d[i].err = "none"
            /\ Concat([i \in 1..Len(d) |-> d[i].bytes]) = b64_src

\* a 5-byte input, default wrap, split by a chunk boundary into two lines
C6_Witness ==
    /\ b64_pc = "done"
    /\ b64_src = Hello
    /\ b64_wrap = B64_WRAP
    /\ Len(b64_out) = 2

\* the positions of a line that hold the padding character
PadPositions(line) == {j \in 1..Len(line) : line[j] = "="}

\* C22: after each chunk fewer than 3 bytes wait unencoded; every line
\* emitted has a length that is a positive multiple of 4; and the padding
\* character stands only at the end of the last line of the finished stream
C22_CarryOver ==
    /\ Len(b64_buf) < 3
    /\ \A i \in 1..Len(b64_out) :
          /\ Len(b64_out[i]) > 0
          /\ Len(b64_out[i]) % 4 = 0
          /\ PadPositions(b64_out[i]) # {} =>
                /\ b64_pc = "done"
                /\ i = Len(b64_out)
                /\ \A j \in PadPositions(b64_out[i]) :
                      (j + 1)..Len(b64_out[i]) \subseteq PadPositions(b64_out[i])

\* a stream cut inside a 3-byte group, so that bytes were carried over, is
\* finished with several lines, the last one padded
C22_Witness ==
    /\ b64_pc = "done"
    /\ b64_src = Hello
    /\ Len(b64_out) = 2
    /\ PadPositions(b64_out[2]) = {Len(b64_out[2])}

(***************************************************************************)
(* Specification SpecWalk: return_full_free over file systems with         *)
(* symbolic links, unreadable directories and any listing order            *)
(***************************************************************************)
P_r == <<Nm("r")>>
P_a == <<Nm("r"), Nm("a")>>
P_b == <<Nm("r"), Nm("b")>>
P_ac == <<Nm("r"), Nm("a"), Nm("c")>>
P_bc == <<Nm("r"), Nm("b"), Nm("c")>>

\* where the symbolic links of the walked file systems may point
LinkTargets == {P_r, P_a, P_b, P_bc}

EntryChoices ==
    {AbsentNode, FileNode(<<104>>), DirNode} \cup {LinkNode(x) : x \in LinkTargets}

\* every assignment of an entry to /r/a, /r/b, /r/a/c, /r/b/c in which
\* only a real directory has a child
WalkLayouts ==
    {g \in [{P_a, P_b, P_ac, P_bc} -> EntryChoices] :
        /\ g[P_ac].kind # "absent" => g[P_a].kind = "dir"
        /\ g[P_bc].kind # "absent" => g[P_b].kind = "dir"}

LayoutNodes(g) ==
    [q \in {P_r} \cup {x \in DOMAIN g : g[x].kind # "absent"} |->
        IF q = P_r THEN DirNode ELSE g[q]]

RealDirs(nodes) == {q \in DOMAIN nodes : nodes[q].kind = "dir"}

WalkFileSystems ==
    {[nodes |-> LayoutNodes(g), denied |-> d, broken |-> b] :
        g \in WalkLayouts, d \in {{}, {P_b}}, b \in {{}, {P_a}}}

\* the root arguments tried: one or two of /r, /r/a, /r/b
RootTexts == {AbsText(P_r), AbsText(P_a), AbsText(P_b)}

WalkInit ==
    /\ B64Idle
    /\ EncIdle
    /\ DecIdle
    /\ ImpIdle
    /\ PoolIdle
    /\ fs \in {f \in WalkFileSystems :
                 f.denied \subseteq RealDirs(f.nodes)
                 /\ f.broken \subseteq RealDirs(f.nodes)}
    /\ base_paths \in {<<x>> : x \in RootTexts}
                      \cup {<<x, y>> : x \in {AbsText(P_r)}, y \in RootTexts}
                      \cup {<<AbsText(P_a), AbsText(P_r)>>}
    /\ WalkBegin

WalkNext == WalkStep

SpecWalk == WalkInit /\ [][WalkNext]_vars

WalkFinished == walk_pc \in {"done", "raised"}

\* the guards of WalkStartRoot, WalkReturn and WalkExplore: a step is possible
WalkCanStep ==
    \/ walk_pc = "next_root"
    \/ /\ walk_pc = "exploring"
       /\ directories_to_explore # <<>>
       /\ listings < MaxListings

\* some symbolic link of the file system leads back to one of its ancestors
HasLinkToAncestor ==
    \E q \in DOMAIN fs.nodes :
        /\ fs.nodes[q].kind = "link"
        /\ Len(fs.nodes[q].target) < Len(q)
        /\ SubSeq(q, 1, Len(fs.nodes[q].target)) = fs.nodes[q].target

\* C4: over any file system, symbolic links back to an ancestor included,
\* the walk over its roots ends after finitely many directory listings: it
\* lists each real directory at most once per root, and until it has
\* returned or raised it can always take its next step
C4_WalkTerminates ==
    /\ listings <= Len(base_paths) * Cardinality(RealDirs(fs.nodes))
    /\ ~WalkFinished => WalkCanStep

\* a walk that met a link back to an ancestor and returned
C4_Witness ==
    /\ walk_pc = "done"
    /\ HasLinkToAncestor
    /\ loops_met # {}

\* the nodes of one root's result list
ListOf(i) == GetKey(result_tree, base_paths[i])

HasNode(i, node) == \E k \in 1..Len(ListOf(i)) : ListOf(i)[k] = node

\* C5: a directory entry whose real path was already visited is not
\* descended into, its directory node is emitted, and a loop_detected
\* diagnostic for that path is emitted in place of its children
C5_LoopDiagnostic ==
    walk_pc = "done" =>
        \A m \in loops_met :
            /\ HasNode(m[1], DictNode(m[2]))
            /\ \E k \in 1..Len(ListOf(m[1])) :
                  /\ ListOf(m[1])[k].kind = "str"
                  /\ StartsWith(ListOf(m[1])[k].text, M_loop)
                  /\ Contains(ListOf(m[1])[k].text, m[2])

\* every root given exists and is a directory
AllRootsValid ==
    \A i \in 1..Len(base_paths) : ~ValidPathRaises(fs, base_paths[i], FALSE)

\* the positions of a node in the result list of root i
PositionsOf(i, node) == {k \in 1..Len(ListOf(i)) : ListOf(i)[k] = node}

\* C11: a PermissionError or another OSError raised by the listing of a
\* directory never makes the walk raise: the marker for that directory is
\* appended, the directories still queued stay queued and the later roots
\* are still walked, so that a walk over valid roots never raises and
\* returns a tree with an entry for each root
C11_WalkErrorRecovery ==
    /\ [](AllRootsValid => walk_pc # "raised")
    /\ [][(/\ walk_pc = "exploring"
           /\ directories_to_explore # <<>>
           /\ ListOutcome(fs, Head(directories_to_explore)) # "ok"
           /\ listings' # listings)
          => LET dir == Head(directories_to_explore)
                 list == GetKey(result_tree', base_paths[root_idx])
             IN  /\ walk_pc' \in {"exploring", "next_root"}
                 /\ list[Len(list)] =
                       FailureMarker(ListOutcome(fs, dir), dir)
                 /\ directories_to_explore' = Tail(directories_to_explore)
                 /\ walk_pc' = "next_root" <=> directories_to_explore' = <<>>
                 /\ walk_pc' = "next_root" => root_idx' = root_idx + 1]_vars
    /\ [](walk_pc = "done" /\ AllRootsValid =>
            \A i \in 1..Len(base_paths) :
                \E k \in 1..Len(result_tree) : result_tree[k].root = base_paths[i])

\* a walk of /r that returned: the listing of /r/a failed, and the file
\* /r/b/c, listed after that failure, is in the tree after the marker
C11_Witness ==
    /\ walk_pc = "done"
    /\ base_paths = <<AbsText(P_r)>>
    /\ \E m \in PositionsOf(1, FailureMarker("OSError", AbsText(P_a))) :
       \E n \in PositionsOf(1, StrNode(AbsText(P_bc))) : m < n

\* C12: when some root does not exist or is not a directory the walk ends
\* with the invalid-root error, and it lists no directory of any root
\* before all the roots have been validated
C12_InvalidRoot ==
    ~AllRootsValid =>
        /\ listings = 0
        /\ WalkFinished => walk_pc = "raised"

\* a < b for texts, as Python orders str: by code point, a proper prefix first
RECURSIVE TextLess(_, _)
TextLess(a, b) ==
    IF b = <<>> THEN FALSE
    ELSE IF a = <<>> THEN TRUE
    ELSE IF Head(a) = Head(b) THEN TextLess(Tail(a), Tail(b))
    ELSE Utf8(<<Head(a)>>)[1] < Utf8(<<Head(b)>>)[1]

\* the entries of the result list of root i that are paths, not markers
EntryPositions(i) ==
    {k \in 1..Len(ListOf(i)) :
        ListOf(i)[k].kind = "dict" \/ ~is_special_marker(ListOf(i)[k].text)}

\* the directory an entry is in, and its name there
ParentOf(text) == SubSeq(PathParts(text), 1, Len(PathParts(text)) - 1)
NameOf(text) == PathParts(text)[Len(PathParts(text))]

\* C14: the entries of one directory are emitted in ascending order of their
\* names, whatever the order in which the listing returned them
C14_SortedTraversal ==
    walk_pc = "done" =>
        \A i \in 1..Len(base_paths) :
        \A k, l \in EntryPositions(i) :
            (/\ k < l
             /\ PathParts(ListOf(i)[k].text) # <<>>
             /\ PathParts(ListOf(i)[l].text) # <<>>
             /\ ParentOf(ListOf(i)[k].text) = ParentOf(ListOf(i)[l].text))
            => TextLess(NameOf(ListOf(i)[k].text), NameOf(ListOf(i)[l].text))

\* the directories on the lineage of an entry of root base: base and the
\* directories between base and the entry
Lineage(base, text) ==
    {SubSeq(text, 1, k - 1) : k \in {j \in (Len(base) + 1)..Len(text) : text[j] = "/"}}

\* the real path of a directory entry is that of a directory on its lineage
RepeatsLineage(base, text) ==
    \E a \in Lineage(base, text) : realpath(fs, a) = realpath(fs, text)

\* the contents of directory text are in the result list of root i
ContentsEmitted(i, text) ==
    \A n \in ListNames(fs, text) :
        LET item == OsPathJoin(text, n)
        IN  /\ isdir(fs, item) => HasNode(i, DictNode(item))
            /\ isfile(fs, item) => HasNode(i, StrNode(item))

\* C15: a real directory reached through two entries in different branches
\* of one root is descended into through both, and its contents are emitted
\* under each; only a real path already on the lineage of an entry stops
\* the descent
C15_PerLineageLoopCheck ==
    walk_pc = "done" =>
        \A i \in 1..Len(base_paths) :
        \A k \in 1..Len(ListOf(i)) :
            LET node == ListOf(i)[k]
            IN  (/\ node.kind = "dict"
                 /\ ListOutcome(fs, node.text) = "ok"
                 /\ ~RepeatsLineage(base_paths[i], node.text))
                => ContentsEmitted(i, node.text)

\* how many of the roots have been started
StartedUpTo == IF walk_pc = "exploring" THEN root_idx ELSE root_idx - 1

\* the walk that made the list now under the key of root i: the latest one
\* started with that root (a root given twice is walked twice, and the
\* second list replaces the first)
LatestWalkOf(i) ==
    CHOOSE j \in 1..StartedUpTo :
        /\ base_paths[j] = base_paths[i]
        /\ \A l \in 1..StartedUpTo : base_paths[l] = base_paths[i] => l <= j

\* the directory entries of root i that were queued for listing
Descended(i) ==
    {ListOf(i)[k].text : k \in {j \in 1..Len(ListOf(i)) : ListOf(i)[j].kind = "dict"}}
        \ {m[2] : m \in {x \in loops_met : x[1] = LatestWalkOf(i)}}

\* the directory nodes of root i
DirectoryNodes(i) ==
    {ListOf(i)[k].text : k \in {j \in 1..Len(ListOf(i)) : ListOf(i)[j].kind = "dict"}}

\* the roots that have their list in the result
RootsStarted == {i \in 1..Len(base_paths) :
                    \E k \in 1..Len(result_tree) : result_tree[k].root = base_paths[i]}

\* C16 as stated: along a lineage from a root, no two directory nodes of the
\* returned tree have the same real path
C16_LineageAllNodes ==
    walk_pc = "done" =>
        \A i \in 1..Len(base_paths) :
        \A t \in DirectoryNodes(i) :
        \A a \in Lineage(base_paths[i], t) \cap DirectoryNodes(i) :
            realpath(fs, a) # realpath(fs, t)

\* C16, amended: along a lineage from a root, no two directory nodes that
\* the walk descended into have the same real path; a directory node whose
\* real path is that of a directory on its lineage is emitted and not
\* descended into
C16_LineageDescended ==
    \A i \in RootsStarted :
        /\ \A t \in Descended(i) :
           \A a \in Lineage(base_paths[i], t) \cap Descended(i) :
               realpath(fs, a) # realpath(fs, t)
        /\ \A t \in DirectoryNodes(i) :
               RepeatsLineage(base_paths[i], t) => t \notin Descended(i)

\* a returned tree with a directory node that has the real path of its
\* parent's, emitted and not descended into
C16_Witness ==
    /\ walk_pc = "done"
    /\ \E i \in 1..Len(base_paths) :
       \E t \in DirectoryNodes(i) \ Descended(i) :
       \E a \in Lineage(base_paths[i], t) \cap Descended(i) :
            realpath(fs, a) = realpath(fs, t)

(***************************************************************************)
(* Specification SpecRewalk: return_full_free called twice with the same   *)
(* roots on an unchanged file system, each listing in any order            *)
(***************************************************************************)
RewalkNext == WalkStartRoot \/ WalkExplore \/ WalkReturn \/ WalkAgain

SpecRewalk == WalkInit /\ [][RewalkNext]_vars

\* C13: two walks over the same roots on an unchanged file system return
\* identical trees, the same nodes in the same order with the same
\* diagnostics, whatever the order of each directory listing
C13_WalkIdempotent ==
    (walk_pc = "done" /\ earlier_trees # <<>>) =>
        \A k \in 1..Len(earlier_trees) : earlier_trees[k] = result_tree

(***************************************************************************)
(* Specification SpecBackup: return_full_free, then aggregate_to_backup    *)
(* on its result while files may vanish or become unreadable, then         *)
(* unpack_from_backup on the archive written                               *)
(***************************************************************************)
N_sp == <<"a", " ", "b">>
N_eq == <<"k", "=", "v">>
N_nl == <<"a", "\n", "b">>
P_sp == <<Nm("r"), N_sp>>
P_eq == <<Nm("r"), N_eq>>
P_nl == <<Nm("r"), N_nl>>
P_d == <<Nm("r"), Nm("d")>>
P_da == <<Nm("r"), Nm("d"), Nm("a")>>

\* file contents: empty, and five bytes that take two reads and two lines
FileChoices == {AbsentNode, FileNode(<<>>), FileNode(Hello)}

\* trees of regular files and directories under /r: /r/"a b", /r/"k=v",
\* /r/d and /r/d/a; or, in place of the first two, an empty file whose name
\* holds a newline
BackupLayouts ==
    {g \in [{P_sp, P_eq, P_nl, P_d, P_da} -> FileChoices \cup {DirNode}] :
        /\ g[P_sp] \in FileChoices
        /\ g[P_eq] \in FileChoices
        /\ g[P_nl] \in {AbsentNode, FileNode(<<>>)}
        /\ g[P_nl].kind # "absent" =>
              g[P_sp].kind = "absent" /\ g[P_eq].kind = "absent"
        /\ g[P_d] \in {AbsentNode, DirNode}
        /\ g[P_da] \in FileChoices
        /\ g[P_da].kind # "absent" => g[P_d].kind = "dir"}

\* the same with the directory /r/d, when it is empty, closed to listing
BackupFileSystems ==
    {[nodes |-> LayoutNodes(g), denied |-> d, broken |-> {}] :
        g \in BackupLayouts, d \in {{}}}
    \cup {[nodes |-> LayoutNodes(g), denied |-> {P_d}, broken |-> {}] :
            g \in {h \in BackupLayouts : /\ h[P_d].kind = "dir"
                                           /\ h[P_da].kind = "absent"
                                           /\ h[P_nl].kind = "absent"}}

\* a directory of the working directory whose name begins as a marker
\* does, holding one file, and walked by its relative path
P_m == <<M_loop>>
P_ma == <<M_loop, Nm("a")>>
MarkerNamedFs ==
    [nodes |-> (P_m :> DirNode) @@ (P_ma :> FileNode(<<>>)),
     denied |-> {}, broken |-> {}]

BackupInit ==
    /\ B64Idle
    /\ DecIdle
    /\ ImpIdle
    /\ PoolIdle
    /\ \/ fs \in BackupFileSystems /\ base_paths = <<AbsText(P_r)>>
       \/ fs = MarkerNamedFs /\ base_paths = <<M_loop>>
    /\ WalkBegin
    /\ enc = EncFresh
    /\ archive = <<>>
    /\ fs_changes = 0

\* aggregate_to_backup called with the tree the walk returned
EncStart ==
    /\ walk_pc = "done"
    /\ EncBegin(result_tree)

\* unpack_from_backup called, in either mode, on what the encoder left
DecStart ==
    /\ enc.pc \in {"done", "raised"}
    /\ dec.pc = "idle"
    /\ \E skip \in BOOLEAN : dec' = DecFresh(skip, FileLines(archive), <<>>)
    /\ UNCHANGED <<impVars, pool, b64Vars, fs, walkVars, encVars>>

\* the next line of the backup file
DecRead ==
    /\ dec.i <= Len(dec.input)
    /\ DecLine(dec.input[dec.i])

\* the backup file is exhausted
DecEnd ==
    /\ dec.pc # "idle"
    /\ dec.i > Len(dec.input)
    /\ DecEof

BackupNext ==
    \/ WalkStartRoot \/ WalkExplore \/ WalkReturn
    \/ EncStart
    \/ EncSkip \/ EncRecordBegin \/ EncOpen \/ EncRead \/ EncReadError
    \/ EncRecordEnd \/ EncFinish
    \/ FsUnlink \/ FsChmod
    \/ DecStart \/ DecRead \/ DecEnd

SpecBackup == BackupInit /\ [][BackupNext]_vars

DecFinished == dec.pc \in {"returned", "raised"}

\* what a faithful restoration of f under the target directory holds: each
\* regular file of f, at the same path below /out, with its bytes
ExpectedFiles(f) ==
    LET src == {q \in DOMAIN f.nodes : f.nodes[q].kind = "file"}
    IN  [x \in {TargetBase.parts \o q : q \in src} |->
            f.nodes[Drop(x, Len(TargetBase.parts))].data]

\* C1: a tree of regular files and directories, whatever the names and
\* contents, walked, encoded and decoded in strict mode: the decode returns
\* and the files under the target are those of the source, byte for byte
C1_RoundTrip ==
    (DecFinished /\ ~dec.skip_errors /\ enc.pc = "done" /\ fs_changes = 0) =>
        /\ dec.pc = "returned"
        /\ dec.files = ExpectedFiles(fs)

\* the lines of an archive that are record markers, in order
RecordMarks(a) ==
    LET idx == Ascending({k \in 1..Len(a) : a[k] \in {RECORD_BEGIN, RECORD_END}})
    IN  [k \in 1..Len(idx) |-> idx[k]]

\* every record of the archive is complete: a begin-marker, a header line,
\* payload lines, a trailer line and an end-marker, one record after another
OnlyCompleteRecords(a) ==
    LET m == RecordMarks(a)
    IN  /\ Len(m) % 2 = 0
        /\ \A k \in 1..Len(m) :
              IF k % 2 = 1
              THEN /\ a[m[k]] = RECORD_BEGIN
                   /\ StartsWith(a[m[k] + 1], HEADER_PREFIX \o T_root_id)
              ELSE /\ a[m[k]] = RECORD_END
                   /\ StartsWith(a[m[k] - 1], HEADER_PREFIX \o T_size)
                   /\ \A j \in (m[k - 1] + 2)..(m[k] - 2) :
                         StartsWith(a[j], PAYLOAD_PREFIX)

EndsWithClose(a) == a # <<>> /\ a[Len(a)] = CLOSE_FOLDER_DELIMITER

\* C10: once a source file has failed to open or to be read after its
\* record was started, the encoder has raised, it writes nothing more, and
\* the close delimiter is never written; an archive that ends with the
\* close delimiter holds only complete records
C10_EncodeAbort ==
    /\ [](enc.io_failed =>
            /\ enc.pc = "raised"
            /\ enc.exc = "BackupError"
            /\ ~EndsWithClose(archive))
    /\ [][enc.io_failed => archive' = archive]_vars
    /\ [](EndsWithClose(archive) => OnlyCompleteRecords(archive))

\* the encoder raised at the open of a file whose record it had started,
\* after a complete first record
C10_Witness ==
    /\ enc.pc = "raised"
    /\ enc.io_failed
    /\ enc.file_count >= 1
    /\ StartsWith(archive[Len(archive)], HEADER_PREFIX \o T_root_id)

\* what a line between the last meta line and the close delimiter is
LineClass(line) ==
    IF line = RECORD_BEGIN THEN "begin"
    ELSE IF line = RECORD_END THEN "end"
    ELSE IF /\ StartsWith(line, HEADER_PREFIX \o T_root_id)
            /\ Contains(line, T_rel)
            /\ Contains(line, T_src)
            /\ Len(line) >= Len(T_enc)
            /\ Drop(line, Len(line) - Len(T_enc)) = T_enc
         THEN "header"
    ELSE IF /\ StartsWith(line, HEADER_PREFIX \o T_size)
            /\ Contains(line, T_sha256)
         THEN "trailer"
    ELSE IF StartsWith(line, PAYLOAD_PREFIX \o <<" ">>) THEN "payload"
    ELSE "other"

\* the lines a[first..last] are records one after another, each a
\* begin-marker, a header line, payload lines, a trailer line, an end-marker
RecordsGrammar(a, first, last) ==
    LET c(k) == IF k < first THEN "before"
                ELSE IF k > last THEN "after"
                ELSE LineClass(a[k])
    IN  /\ c(first) \in {"begin", "after"}
        /\ c(last) \in {"end", "before"}
        /\ \A k \in first..last :
              CASE c(k) = "begin" -> c(k + 1) = "header"
                []  c(k) = "header" -> /\ c(k - 1) = "begin"
                                       /\ c(k + 1) \in {"payload", "trailer"}
                []  c(k) = "payload" -> /\ c(k - 1) \in {"header", "payload"}
                                        /\ c(k + 1) \in {"payload", "trailer"}
                []  c(k) = "trailer" -> /\ c(k - 1) \in {"header", "payload"}
                                        /\ c(k + 1) = "end"
                []  c(k) = "end" -> /\ c(k - 1) = "trailer"
                                    /\ c(k + 1) \in {"begin", "after"}
                []  OTHER -> FALSE

\* the archive grammar for an archive made from tree: open delimiter,
\* version line, one root line per distinct root id, records, close delimiter
ArchiveGrammar(a, tree) ==
    LET ids == {root_prefix_id(tree[i].root) : i \in 1..Len(tree)}
        n == Cardinality(ids)
    IN  /\ Len(a) >= 3 + n
        /\ a[1] = OPEN_FOLDER_DELIMITER
        /\ a[2] = MetaVersionLine
        /\ \A id \in ids :
              Cardinality({k \in 3..(2 + n) :
                  StartsWith(a[k], META_PREFIX \o T_root_id \o id
                                      \o T_root_posix)}) = 1
        /\ a[Len(a)] = CLOSE_FOLDER_DELIMITER
        /\ RecordsGrammar(a, 3 + n, Len(a) - 1)

\* C19: the lines of every archive that aggregate_to_backup wrote and
\* returned from are: the open delimiter, the version meta line, one root
\* meta line per distinct root id, then whole records one after another
\* (begin-marker, header line, payload lines, trailer line, end-marker),
\* then the close delimiter
C19_ArchiveGrammar ==
    enc.pc = "done" => ArchiveGrammar(FileLines(archive), result_tree)

\* the complete records of an archive: [first, last], the positions of
\* their begin- and end-markers
CompleteRecords(a) ==
    LET m == RecordMarks(a)
    IN  {[first |-> m[2 * k - 1], last |-> m[2 * k]] :
            k \in 1..(Len(m) \div 2)}

\* the base64 texts of a record's payload lines, in order
PayloadTexts(a, rec) ==
    [j \in 1..(rec.last - rec.first - 3) |->
        Drop(a[rec.first + 1 + j], Len(PAYLOAD_PREFIX) + 1)]

\* the bytes whose base64 encoding the payload lines of a record are
PayloadBytes(a, rec) ==
    LET d == DecodedLines(PayloadTexts(a, rec))
    IN  Concat([i \in 1..Len(d) |-> d[i].bytes])

\* C20: in every record the encoder completed, the trailer's size is the
\* number of bytes read from the source file and its sha256 the digest of
\* the bytes that the record's payload lines encode, the empty file (size
\* 0, no payload line) included; while a file is read, the bytes counted
\* and hashed so far are the bytes read so far
C20_TrailerConsistent ==
    /\ \A rec \in CompleteRecords(archive) :
          LET bytes == PayloadBytes(archive, rec)
          IN  archive[rec.last - 1] = TrailerLine(Len(bytes), sha256hex(bytes))
    /\ enc.pc = "read" =>
          /\ enc.size = enc.pos
          /\ enc.sha256 = SubSeq(enc.data, 1, enc.pos)

\* an archive is finished that holds the record of an empty file, with no
\* payload line, and the record of the five bytes, read in two chunks
C20_Witness ==
    /\ enc.pc = "done"
    /\ \E rec \in CompleteRecords(archive) :
          /\ rec.last - rec.first = 3
          /\ archive[rec.last - 1] = TrailerLine(0, sha256hex(<<>>))
    /\ \E rec \in CompleteRecords(archive) :
          /\ rec.last - rec.first = 5
          /\ archive[rec.last - 1] = TrailerLine(5, sha256hex(Hello))

\* the str nodes of a list of nodes, depth-first, in order
RECURSIVE StrNodesOf(_)
StrNodesOf(list) ==
    IF list = <<>> THEN <<>>
    ELSE (IF Head(list).kind = "str" THEN <<Head(list).text>>
          ELSE StrNodesOf(Head(list).children))
         \o StrNodesOf(Tail(list))

\* the dict nodes of a list of nodes: the directories the walk listed
RECURSIVE DictTextsOf(_)
DictTextsOf(list) ==
    IF list = <<>> THEN {}
    ELSE (IF Head(list).kind = "dict"
          THEN {Head(list).text} \cup DictTextsOf(Head(list).children)
          ELSE {})
         \cup DictTextsOf(Tail(list))

\* the diagnostic markers the walk can have put into a list of nodes
DiagnosticsOf(list) ==
    {FailureMarker(o, d).text :
        o \in {"PermissionError", "OSError"}, d \in DictTextsOf(list)}

\* the file nodes of a tree in tree order, as (root, file) pairs: the str
\* nodes that are no diagnostic
RECURSIVE TreeFileNodes(_)
TreeFileNodes(tree) ==
    IF tree = <<>> THEN <<>>
    ELSE LET list == Head(tree).list
             IsFileNode(text) == text \notin DiagnosticsOf(list)
             texts == SelectSeq(StrNodesOf(list), IsFileNode)
         IN  [k \in 1..Len(texts) |->
                 [root |-> Head(tree).root, file |-> texts[k]]]
             \o TreeFileNodes(Tail(tree))

EncStarted == enc.pc \notin {"idle", "init"}

\* C21: the pairs the encoder goes through are the file nodes of the tree
\* in tree order, no diagnostic among them; it takes them one by one, a
\* pair that is a plain file then getting the next record of the archive
\* and one that is not being passed over without an error; and it has
\* taken them all when it is done
C21_Flattening ==
    /\ [](EncStarted => enc.files = TreeFileNodes(result_tree))
    /\ [](enc.pc = "done" => enc.idx = Len(enc.files) + 1)
    /\ [][(EncStarted /\ enc.pc = "next_file" /\ enc' # enc
             /\ enc.idx <= Len(enc.files)) =>
            LET pair == enc.files[enc.idx]
            IN  IF isfile(fs, pair.file)
                THEN /\ Len(archive') = Len(archive) + 2
                     /\ archive'[Len(archive) + 1] = RECORD_BEGIN
                     /\ archive'[Len(archive) + 2] =
                          HeaderLine(root_prefix_id(pair.root),
                              to_posix(relative_under_root(fs, pair.root,
                                                           pair.file)),
                              to_posix(pair.file))
                ELSE /\ archive' = archive
                     /\ enc'.idx = enc.idx + 1
                     /\ enc'.pc = "next_file"]_vars
    /\ [][(EncStarted /\ enc'.idx # enc.idx) =>
            /\ enc'.idx = enc.idx + 1
            /\ enc.pc = "next_file" \/ archive'[Len(archive')] = RECORD_END]_vars

\* C23: in every record no payload line is longer than the wrap width, and
\* every payload line but the record's last is exactly that long
C23_FixedWidth ==
    \A rec \in CompleteRecords(archive) :
        LET texts == PayloadTexts(archive, rec)
        IN  \A j \in 1..Len(texts) :
                /\ Len(texts[j]) <= B64_WRAP
                /\ j < Len(texts) => Len(texts[j]) = B64_WRAP

\* the header line the encoder writes for a pair of its list, and the
\* relative path in it
RelOf(pair) == to_posix(relative_under_root(fs, pair.root, pair.file))
HeaderOf(pair) ==
    HeaderLine(root_prefix_id(pair.root), RelOf(pair), to_posix(pair.file))

\* C25: the decoder's parse of a record header line that the encoder wrote
\* gives the root id and the relative path the encoder put into it
C25_HeaderRoundTrip ==
    \A k \in 1..Len(enc.files) :
        LET pair == enc.files[k]
        IN  (\E j \in 1..Len(archive) : archive[j] = HeaderOf(pair)) =>
                LET kv == HeaderItems(Strip(FileLines(<<HeaderOf(pair)>>)[1]))
                IN  /\ KvHas(kv, K_root_id)
                    /\ KvGet(kv, K_root_id) = root_prefix_id(pair.root)
                    /\ KvHas(kv, K_rel)
                    /\ KvGet(kv, K_rel) = RelOf(pair)

(***************************************************************************)
(* Specification SpecCorrupt: a well-formed archive, one character of one  *)
(* payload line replaced, then unpacked in either mode                     *)
(***************************************************************************)
P_fa == <<Nm("r"), Nm("a")>>
P_fb == <<Nm("r"), Nm("b")>>

CorruptFileSystems ==
    {[nodes |-> (P_r :> DirNode) @@ (P_fa :> FileNode(Hello)),
      denied |-> {}, broken |-> {}],
     [nodes |-> (P_r :> DirNode) @@ (P_fa :> FileNode(<<0>>))
                   @@ (P_fb :> FileNode(<<104, 105>>)),
      denied |-> {}, broken |-> {}]}

\* the characters a replacement may put in
ReplChars == {"A", "B", "8", "9", "G", "=", "!", " ", "-", "U00BB"}

CorruptInit ==
    /\ B64Idle
    /\ DecIdle
    /\ ImpIdle
    /\ PoolIdle
    /\ fs \in CorruptFileSystems
    /\ base_paths = <<AbsText(P_r)>>
    /\ WalkBegin
    /\ enc = EncFresh
    /\ archive = <<>>
    /\ fs_changes = 0

\* unpack_from_backup called on the archive with one character of one
\* payload line replaced by a different one
DecStartTampered ==
    /\ enc.pc = "done"
    /\ dec.pc = "idle"
    /\ \E skip \in BOOLEAN :
       \E k \in {j \in 1..Len(archive) : StartsWith(archive[j], PAYLOAD_PREFIX)} :
       \E pos \in 1..Len(archive[k]) :
       \E c \in ReplChars \ {archive[k][pos]} :
          dec' = DecFresh(skip, [archive EXCEPT ![k][pos] = c], <<k, pos>>)
    /\ UNCHANGED <<impVars, pool, b64Vars, fs, walkVars, encVars>>

CorruptNext ==
    \/ WalkStartRoot \/ WalkExplore \/ WalkReturn
    \/ EncStart
    \/ EncRecordBegin \/ EncOpen \/ EncRead \/ EncRecordEnd \/ EncFinish
    \/ DecStartTampered \/ DecRead \/ DecEnd

SpecCorrupt == CorruptInit /\ [][CorruptNext]_vars

\* C2: in strict mode, a payload line with one character replaced makes the
\* decode fail with an integrity error: it raises BackupError and does not
\* return normally
C2_StrictDetects ==
    (DecFinished /\ dec.tampered # <<>> /\ ~dec.skip_errors) =>
        /\ dec.pc = "raised"
        /\ dec.exc = "BackupError"

\* the output path of the record that line k of the input belongs to
RecordPath(lines, k) ==
    LET h == -Kth({-j : j \in {x \in 1..k :
                     StartsWith(lines[x], HEADER_PREFIX \o T_root_id)}}, 1)
    IN  TargetBase.parts \o P_r \o PathParts(KvGet(HeaderItems(lines[h]), K_rel))

\* C3: in lenient mode, a payload line with one character replaced does not
\* make the decode raise; the file of that record is left on disk and every
\* other record is restored with exactly its original bytes
C3_LenientContinues ==
    (DecFinished /\ dec.tampered # <<>> /\ dec.skip_errors) =>
        /\ dec.pc = "returned"
        /\ RecordPath(dec.input, dec.tampered[1]) \in DOMAIN dec.files
        /\ \A q \in DOMAIN ExpectedFiles(fs) :
              q # RecordPath(dec.input, dec.tampered[1]) =>
                 /\ q \in DOMAIN dec.files
                 /\ dec.files[q] = ExpectedFiles(fs)[q]

(***************************************************************************)
(* Specification SpecTruncate: a well-formed archive cut after any of its  *)
(* lines but the last, then unpacked in either mode                        *)
(***************************************************************************)
\* unpack_from_backup called on the first n lines of the archive
DecStartTruncated ==
    /\ enc.pc = "done"
    /\ dec.pc = "idle"
    /\ \E skip \in BOOLEAN :
       \E n \in 0..(Len(FileLines(archive)) - 1) :
          dec' = DecFresh(skip, SubSeq(FileLines(archive), 1, n), <<>>)
    /\ UNCHANGED <<impVars, pool, b64Vars, fs, walkVars, encVars>>

TruncateNext ==
    \/ WalkStartRoot \/ WalkExplore \/ WalkReturn
    \/ EncStart
    \/ EncRecordBegin \/ EncOpen \/ EncRead \/ EncRecordEnd \/ EncFinish
    \/ DecStartTruncated \/ DecRead \/ DecEnd

SpecTruncate == CorruptInit /\ [][TruncateNext]_vars

\* the input is the archive cut between two records or inside a record
CutInRecords ==
    /\ Len(dec.input) < Len(FileLines(archive))
    /\ \E j \in 1..Len(dec.input) : dec.input[j] = RECORD_BEGIN

\* C27: the strict decode of an archive cut between two records or inside
\* a record, its close delimiter missing, ends with an error and does not
\* return normally
C27_TruncatedFails ==
    (DecFinished /\ ~dec.skip_errors /\ CutInRecords) => dec.pc = "raised"

(***************************************************************************)
(* Specification SpecLinked: return_full_free, then aggregate_to_backup,   *)
(* on a root /r that may hold a file a and a symbolic link l to the        *)
(* directory /x outside it, which may hold a file a of its own             *)
(***************************************************************************)
P_x == <<Nm("x")>>
P_xa == <<Nm("x"), Nm("a")>>
P_l == <<Nm("r"), Nm("l")>>

LinkedLayouts ==
    {g \in [{P_fa, P_xa, P_l} -> FileChoices \cup {LinkNode(P_x)}] :
        /\ g[P_fa] \in FileChoices
        /\ g[P_xa] \in FileChoices
        /\ g[P_l] \in {AbsentNode, LinkNode(P_x)}}

LinkedFileSystems ==
    {[nodes |-> LayoutNodes(g) @@ (P_x :> DirNode),
      denied |-> {}, broken |-> {}] : g \in LinkedLayouts}

LinkedInit ==
    /\ B64Idle
    /\ DecIdle
    /\ ImpIdle
    /\ PoolIdle
    /\ fs \in LinkedFileSystems
    /\ base_paths = <<AbsText(P_r)>>
    /\ WalkBegin
    /\ enc = EncFresh
    /\ archive = <<>>
    /\ fs_changes = 0

LinkedNext ==
    \/ WalkStartRoot \/ WalkExplore \/ WalkReturn
    \/ EncStart
    \/ EncRecordBegin \/ EncOpen \/ EncRead \/ EncRecordEnd \/ EncFinish

SpecLinked == LinkedInit /\ [][LinkedNext]_vars

\* the pair has its record header in the archive
Recorded(pair) == \E j \in 1..Len(archive) : archive[j] = HeaderOf(pair)

\* C29: two different source files listed under the same root never have
\* the same root id and relative path in the headers of their records
C29_NoCollision ==
    \A i \in 1..Len(enc.files) : \A j \in 1..Len(enc.files) :
        LET p == enc.files[i]
            q == enc.files[j]
        IN  (/\ p.root = q.root
             /\ realpath(fs, p.file) # realpath(fs, q.file)
             /\ Recorded(p) /\ Recorded(q)) =>
                RelOf(p) # RelOf(q)

(***************************************************************************)
(* Specification SpecDecode: unpack_from_backup on any sequence of lines   *)
(* drawn from well-formed and ill-formed ones, in either mode              *)
(***************************************************************************)
MaxLines == 4

RidR == root_prefix_id(AbsText(P_r))
RidUnknown == <<"z", "z">>
Hi == <<104, 105>>
T_a == <<"a">>
T_b == <<"b">>
T_ab == <<"a", "/", "b">>
T_abs == <<"/", "x">>

\* a line with a marker the format does not have
UnknownMarkerLine == <<"U00BB", "[", "N", "O", "T", "E", "]", "U00AB", " ", "x">>

LinePool ==
    {MetaRootLine(RidR, AbsText(P_r)),
     RECORD_BEGIN,
     RECORD_END,
     HeaderLine(RidR, T_a, AbsText(P_fa)),
     HeaderLine(RidR, T_b, AbsText(P_fb)),
     HeaderLine(RidR, T_ab, AbsText(P_fa)),
     HeaderLine(RidUnknown, T_a, AbsText(P_fa)),
     HeaderLine(RidR, T_abs, AbsText(P_fa)),
     PayloadLine(b64encode(Hi)),
     PayloadLine(<<"a">>),
     TrailerLine(2, sha256hex(Hi)),
     TrailerLine(3, sha256hex(Hi)),
     TrailerLine(2, sha256hex(<<0>>)),
     HEADER_PREFIX \o T_size \o <<"2">> \o T_sha256,
     HEADER_PREFIX \o T_size \o <<"x">> \o T_sha256 \o sha256hex(Hi),
     UnknownMarkerLine}

DecodeInit ==
    /\ B64Idle
    /\ WalkIdle
    /\ EncIdle
    /\ ImpIdle
    /\ PoolIdle
    /\ fs = EmptyFs
    /\ \E skip \in BOOLEAN : dec = DecFresh(skip, <<>>, <<>>)

\* the backup file yields one more line
DecodeFeed ==
    /\ dec.i <= MaxLines
    /\ \E line \in LinePool : DecLine(line)

\* the backup file ends
DecodeEnd == DecEof

DecodeNext == DecodeFeed \/ DecodeEnd

SpecDecode == DecodeInit /\ [][DecodeNext]_vars

\* the trailer t is met by a file of that size and digest
TrailerMet(t, size, digest) ==
    /\ ParseInt(t.size).ok
    /\ ParseInt(t.size).value = size
    /\ t.sha256 = digest

\* C7: whenever the output file of a record whose trailer declares size and
\* sha256 is closed, at the end-marker, at a begin-marker or at the end of
\* the input, a strict decode fails unless the bytes decoded are as many as
\* the record declares and their SHA-256 is the one the record declares
C7_VerifiedOnClose ==
    \A c \in dec.closes :
        (/\ ~dec.skip_errors
         /\ c.trailer # <<>>
         /\ ~TrailerMet(c.trailer[1], c.size, c.digest))
        => dec.pc = "raised"

\* a strict decode that closed a file whose digest is the declared one and
\* whose size is not, and failed
C7_Witness ==
    /\ ~dec.skip_errors
    /\ dec.pc = "raised"
    /\ \E c \in dec.closes :
          /\ c.trailer # <<>>
          /\ c.trailer[1].sha256 = c.digest
          /\ ParseInt(c.trailer[1].size).ok
          /\ ParseInt(c.trailer[1].size).value # c.size

\* C8: a record whose root id no meta line declared makes a strict decode
\* abort with an error; a lenient decode writes it under unknown_<id> and
\* goes on
C8_UnknownRoot ==
    (DecFinished /\ dec.unknown_roots # {}) =>
        IF dec.skip_errors
        THEN \A rid \in dec.unknown_roots :
                \E q \in DOMAIN dec.files :
                    StartsWith(q, TargetBase.parts \o <<T_unknown \o rid>>)
        ELSE dec.pc = "raised"

\* C9: when unpack_from_backup has returned or raised, every output file it
\* opened has been closed
C9_HandlesClosed ==
    DecFinished => \A h \in 1..Len(dec.handles) : dec.handles[h].closed

\* C17: a strict decode that met a non-blank line that is not a delimiter,
\* a meta line, a begin- or end-marker, a header line or a payload line
\* inside an open record reports an error instead of ignoring the line
C17_FormatFailure ==
    (DecFinished /\ ~dec.skip_errors /\ dec.unrecognised) => dec.pc = "raised"

(***************************************************************************)
(* Specification SpecImport: the four functions that change sys.path,      *)
(* called in any order, from any of a few starting lists                   *)
(***************************************************************************)
InitialSysPaths ==
    { <<>>, <<"/py">>, <<"/py", RunLibPath>>, <<"/py", SourcePath>> }

ImportInit ==
    /\ fs = EmptyFs
    /\ B64Idle
    /\ WalkIdle
    /\ EncIdle
    /\ DecIdle
    /\ sys_path \in InitialSysPaths
    /\ INITIAL_SYS_PATH = None
    /\ RAW_SYS_PATH = None
    /\ imp = ImpFresh
    /\ PoolIdle

ChangeSysPath ==
    \E to_runlib \in BOOLEAN, to_staticlib \in BOOLEAN,
       found \in PackagesPathOutcomes :
        change_sys_path(to_runlib, to_staticlib, found)

ImportNext ==
    \/ ChangeSysPath
    \/ restore_sys_path
    \/ set_source_dir
    \/ set_source_dir_restore

SpecImport == ImportInit /\ [][ImportNext]_vars

C24_ImplicitClose ==
    /\ (dec.line \in {RECORD_BEGIN, RECORD_END} /\ dec.closes # {}) =>
          \A c \in dec.closes :
              LET bad == \/ dec.expected_sha # <<>> /\ c.digest # dec.expected_sha
                         \/ dec.expected_size # c.size
              IN  /\ dec.handles[c.handle].closed
                  /\ IF bad /\ ~dec.skip_errors
                     THEN dec.pc = "raised" /\ dec.exc = "BackupError"
                     ELSE dec.pc = "running" /\ dec.current_out_file = 0
    /\ (dec.line \in {RECORD_BEGIN, RECORD_END} /\ dec.pc = "running") =>
          /\ dec.current_out_file = 0
          /\ \A h \in 1..Len(dec.handles) : dec.handles[h].closed

\* C26: in strict mode a file is closed without an error only when its own
\* record declared a size and a sha256 and the file has that size and that
\* digest: never on no trailer, on values an earlier record left, or with
\* the digest not compared
C26_TrailerRequired ==
    (~dec.skip_errors /\ dec.pc # "raised") =>
        \A c \in dec.closes :
            /\ c.trailer # <<>>
            /\ TrailerMet(c.trailer[1], c.size, c.digest)

\* C28: every file the decode creates or overwrites lies inside the target
\* directory
C28_OutputContained ==
    /\ \A q \in DOMAIN dec.files : StartsWith(q, TargetBase.parts)
    /\ \A h \in 1..Len(dec.handles) :
          StartsWith(dec.handles[h].path, TargetBase.parts)

(***************************************************************************)
(* Specification SpecPool: one call of RequestPool.execute_all with a list *)
(* of up to MaxTasks tasks, the worker threads running in any order        *)
(***************************************************************************)
TaskIds == { "t1", "t2" }

RECURSIVE TaskLists(_)
TaskLists(n) ==
    IF n = 0 THEN { <<>> }
    ELSE TaskLists(n - 1) \cup
         { Append(l, [task_id |-> id]) :
               l \in { m \in TaskLists(n - 1) : Len(m) = n - 1 },
               id \in TaskIds }

PoolInit ==
    /\ fs = EmptyFs
    /\ B64Idle
    /\ WalkIdle
    /\ EncIdle
    /\ DecIdle
    /\ ImpIdle
    /\ pool \in { PoolFresh(tasks) : tasks \in TaskLists(MaxTasks) }

PoolNext ==
    \/ PoolCreate
    \/ PoolStart
    \/ WorkerExecute
    \/ WorkerFinish
    \/ PoolJoin
    \/ PoolReturn

SpecPool == PoolInit /\ [][PoolNext]_vars

\* C30: when execute_all has returned, every worker has finished, and the
\* list returned holds one TaskResult per task, in the order of the tasks,
\* each with the task_id of its task; the result of a task whose request
\* raised has success False and an error text
C30_ExecuteAll ==
    pool.pc = "returned" =>
        /\ \A k \in 1..Len(pool.workers) : pool.workers[k].state = "finished"
        /\ Len(pool.results) = Len(pool.tasks)
        /\ \A k \in 1..Len(pool.tasks) :
              /\ pool.results[k].task_id = pool.tasks[k].task_id
              /\ pool.workers[k].outcome # "returns" =>
                    /\ ~pool.results[k].success
                    /\ pool.results[k].error # None

====
